---------------------------- MODULE Spec2Model ----------------------------
(***************************************************************************)
(* A model of the VISION AI command pipeline: the SafetyGuard path check,  *)
(* the FileManager operations it gates, the ActionExecutor plan loop, the  *)
(* SmartTemplateMatcher, the process_command routing cascade, the          *)
(* LLMController plan parser and the ContextManager.                       *)
(*                                                                         *)
(* Strings of the program are TLA+ strings; the string helpers below       *)
(* (lower, split, startswith, ...) compute what the Python built-ins       *)
(* compute, character by character.                                        *)
(***************************************************************************)
EXTENDS Integers, Sequences, FiniteSets, TLC

VARIABLES
    cwd,          \* process working directory (os.getcwd()), absolute
    userProfile,  \* os.environ.get('USERPROFILE', '')
    gOp,          \* SafetyGuard call under study: operation kind
    gPath,        \*   its path argument
    gVerdict,     \*   its return value, or NoVerdict before the call
    gPc,          \*   "call" before validate_file_operation ran, "done" after
    world,        \* the filesystem and the objects every component shares:
                  \*   files, dirs  paths that exist as files or as directories
                  \*   fsCalls      the filesystem-modifying calls attempted, in order
                  \*   action_log   SafetyGuard.action_log
                  \*   validations  the validate_file_operation calls made, in order
                  \*   current_directory  FileManager.current_directory
    fCall,        \* FileManager call under study: <<method, arguments>>
    fResult,      \*   its return value
    fBefore,      \*   the world the call started in
    fN,           \*   number of FileManager calls made so far
    plan,         \* ActionExecutor.execute_plan under study: its plan argument
    pStep,        \*   number of steps the loop has gone through
    results,      \*   the local list results
    pKinds,       \*   per step gone through: succeeded, failed, raised or unknown
    pRet,         \*   the return value (success, results)
    pPc,          \*   "loop" in the for loop, "return" after it, "done" returned
    mCommand,     \* SmartTemplateMatcher.match under study: its command argument
    mResult,      \*   its return value
    mPc,          \*   "call" before match ran, "done" after
    stack,        \* the call stack of the command worker: process_command frames
                  \*   and, between them, frames of the template handlers that
                  \*   call process_command back (_execute_chain, _open_and_do)
    log,          \*   what each tier of each process_command call did, in order
    history,      \*   the AgentMemory.remember_command calls, in order
    nextId,       \*   number of process_command calls started
    crashed,      \*   an exception left the outermost process_command
    ctx,          \* the ContextManager fields the routing reads and writes
    lEnv,         \* LLMController.parse_ambiguous_command under study: what the
                  \*   model file and the llama runtime do
    lResponse,    \*   the text the model answers with
    lResult,      \*   the return value
    lPc,          \*   "call" before the call, "done" after
    cm,           \* a ContextManager object
    now,          \*   time.time(), in seconds
    lastHandled,  \*   when a YouTube search or follow-up was last handled, 0 before any
    hText,        \* FastComplexHandler.handle under study: its text argument
    hEnv,         \*   what the operating system does during the call
    hResult,      \*   what it returned
    hBefore,      \*   the world the call started in
    hPc,          \*   "call" before the call, "done" after
    hReported,    \*   the count in its closing message, -1 when there is none
    added,        \* the ContextManager.add_command calls made, in order
    mem,          \* an AgentMemory object
    disk,         \*   the text of its memory file, None while there is none
    calls,        \*   the remember_command calls that returned, in order
    wk,           \* the command workers running at once: each one's position
                  \*   and local values
    browser,      \* VisionAI.browser: the session held, or None
    sessions,     \*   every browser session created: is it still alive
    iText,        \* VisionAI.instant_execute under study: its text argument
    iEnv,         \*   what the operating system does during the call
    iResult,      \*   the rule that handled the text and what it returned
    iBefore,      \*   the context the call started in
    iPc,          \*   "idle" before the first call, "done" after a call
    iN            \*   the number of calls made

envVars   == <<cwd, userProfile>>
guardVars == <<gOp, gPath, gVerdict, gPc>>
fileVars  == <<fCall, fResult, fBefore, fN>>
planVars  == <<plan, pStep, results, pKinds, pRet, pPc>>
matchVars == <<mCommand, mResult, mPc>>
routeVars == <<stack, log, history, nextId, crashed, ctx>>
llmVars   == <<lEnv, lResponse, lResult, lPc>>
cmVars    == <<cm, now, lastHandled>>
handleVars == <<hText, hEnv, hResult, hBefore, hPc, hReported>>
ringVars  == <<added>>
memVars   == <<mem, disk, calls>>
sessionVars == <<browser, sessions>>
instantVars == <<iText, iEnv, iResult, iBefore, iPc, iN>>
moreVars  == <<ringVars, memVars, wk, sessionVars, instantVars>>
vars      == <<envVars, guardVars, world, fileVars, planVars, matchVars, routeVars,
               llmVars, cmVars, handleVars, moreVars>>

None == "None"

\* Python's True and False where a value may also be None
True  == "True"
False == "False"

python_bool(b) == IF b THEN True ELSE False

\* The symbols the program puts into its messages, one ASCII character each:
\* TICK is the check mark of a success message, CROSS the ballot x of a
\* failure message, XMARK the cross mark of an unknown-action message and
\* BLOCKED the no-entry sign of a SafetyGuard refusal.
TICK    == "^"
CROSS   == "~"
XMARK   == "#"
BLOCKED == "!"

-----------------------------------------------------------------------------
(* Python string built-ins *)

Min(a, b) == IF a < b THEN a ELSE b

Max(a, b) == IF a > b THEN a ELSE b

ch(s, i) == SubSeq(s, i, i)

UpperChars == "ABCDEFGHIJKLMNOPQRSTUVWXYZ"
LowerChars == "abcdefghijklmnopqrstuvwxyz"

\* the lower-case letter of each upper-case letter
LowerOf == [k \in 1..26 |-> ch(LowerChars, k)]
UpperSet == {ch(UpperChars, k) : k \in 1..26}
UpperIndex == [c \in UpperSet |-> CHOOSE k \in 1..26 : ch(UpperChars, k) = c]

lower_char(c) == IF c \in UpperSet THEN LowerOf[UpperIndex[c]] ELSE c

\* s.lower(), rewritten from the first upper-case letter on
RECURSIVE lower(_)
lower(s) ==
    LET uppers == {i \in 1..Len(s) : ch(s, i) \in UpperSet}
        from(i) == SubSeq(s, 1, i - 1) \o lower_char(ch(s, i)) \o lower(SubSeq(s, i + 1, Len(s)))
    IN  IF uppers = {} THEN s ELSE from(CHOOSE i \in uppers : \A j \in uppers : i <= j)

startswith(s, p) == Len(s) >= Len(p) /\ SubSeq(s, 1, Len(p)) = p

endswith(s, p) == Len(s) >= Len(p) /\ SubSeq(s, Len(s) - Len(p) + 1, Len(s)) = p

\* sub in s
contains(s, sub) ==
    \E i \in 1..(Len(s) - Len(sub) + 1) : SubSeq(s, i, i + Len(sub) - 1) = sub

\* index of the first occurrence of the character c in s, or 0
first_index(s, c) ==
    LET hits == {i \in 1..Len(s) : ch(s, i) = c}
    IN  IF hits = {} THEN 0 ELSE CHOOSE i \in hits : \A j \in hits : i <= j

\* s.replace(a, b) for a single character a
RECURSIVE replace_char(_, _, _)
replace_char(s, a, b) ==
    LET from(i) == SubSeq(s, 1, i - 1) \o b \o replace_char(SubSeq(s, i + 1, Len(s)), a, b)
    IN  IF first_index(s, a) = 0 THEN s ELSE from(first_index(s, a))

\* s.split(c) for a single character c: the fields between the separators
RECURSIVE split(_, _)
split(s, c) ==
    LET i == first_index(s, c)
    IN  IF i = 0 THEN <<s>>
        ELSE <<SubSeq(s, 1, i - 1)>> \o split(SubSeq(s, i + 1, Len(s)), c)

\* c.join(parts)
RECURSIVE join(_, _)
join(parts, c) ==
    IF parts = <<>> THEN ""
    ELSE IF Len(parts) = 1 THEN parts[1]
    ELSE parts[1] \o c \o join(Tail(parts), c)

\* s.strip() for blanks
RECURSIVE strip(_)
strip(s) ==
    IF s = "" THEN ""
    ELSE IF ch(s, 1) = " " THEN strip(SubSeq(s, 2, Len(s)))
    ELSE IF ch(s, Len(s)) = " " THEN strip(SubSeq(s, 1, Len(s) - 1))
    ELSE s

\* s.split(): the words that blanks separate
split_blanks(s) == SelectSeq(split(s, " "), LAMBDA x : x # "")

\* s.replace(a, b)
RECURSIVE replace(_, _, _)
replace(s, a, b) ==
    IF Len(s) < Len(a) \/ a = "" THEN s
    ELSE IF SubSeq(s, 1, Len(a)) = a THEN b \o replace(SubSeq(s, Len(a) + 1, Len(s)), a, b)
    ELSE ch(s, 1) \o replace(SubSeq(s, 2, Len(s)), a, b)

-----------------------------------------------------------------------------
(* Python re.  A pattern is a sequence of nodes; the matcher backtracks in  *)
(* the order the re module does, so the first match found is re's match.   *)

rnode(t, x, n, alts) == [t |-> t, x |-> x, n |-> n, alts |-> alts]

Lit(x)      == rnode("lit", x, 0, <<>>)            \* literal text
Ws          == rnode("ws", "", 1, <<>>)            \* \s+
WsOpt       == rnode("ws", "", 0, <<>>)            \* \s*
Alt(alts)   == rnode("alt", "", 0, alts)           \* (?:a|b|...)
Opt(seq)    == Alt(<<seq, <<>>>>)                  \* (?:a)?
OneOf(ws)   == Alt([k \in 1..Len(ws) |-> <<Lit(ws[k])>>])   \* (?:w1|w2|...)
Lazy(n)     == rnode("cap", "lazy", n, <<>>)       \* (.+?) as group n
Greedy(n)   == rnode("cap", "greedy", n, <<>>)     \* (.+) as group n
Word(n)     == rnode("cap", "word", n, <<>>)       \* (\w+) as group n
Digits(n)   == rnode("cap", "digits", n, <<>>)     \* (\d+) as group n
Group(n, alts) == rnode("group", "", n, alts)      \* (a|b|...) as group n
AnyLazy     == rnode("any", "lazy", 0, <<>>)       \* .*?
AnyGreedy   == rnode("any", "greedy", 0, <<>>)     \* .*
End         == rnode("end", "", 0, <<>>)           \* $
WordEnd     == rnode("wb", "", 0, <<>>)            \* \b
Blank       == Alt(<< <<Lit(" ")>> >>)             \* \s
Ahead(alts) == rnode("ahead", "", 0, alts)         \* (?=a|b|...)

DigitChars == {ch("0123456789", k) : k \in 1..10}

WordChars ==
    {ch("abcdefghijklmnopqrstuvwxyzABCDEFGHIJKLMNOPQRSTUVWXYZ0123456789_", k) : k \in 1..63}

is_word_at(s, i) == i >= 1 /\ i <= Len(s) /\ ch(s, i) \in WordChars

\* the number of consecutive characters of s from position i that lie in cls
RECURSIVE run_length(_, _, _)
run_length(s, i, cls) ==
    IF i <= Len(s) /\ ch(s, i) \in cls THEN 1 + run_length(s, i + 1, cls) ELSE 0

\* hi, hi-1, ..., lo
descending(hi, lo) == [k \in 1..(hi - lo + 1) |-> hi + 1 - k]

\* lo, lo+1, ..., hi
ascending(lo, hi) == [k \in 1..(hi - lo + 1) |-> lo + k - 1]

NoMatch == [ok |-> FALSE, start |-> 0, end |-> 0, caps |-> <<>>]

RECURSIVE rmatch(_, _, _, _)
RECURSIVE first_of(_, _, _, _, _, _)
RECURSIVE try_spans(_, _, _, _, _, _)

\* the alternatives alts[k], alts[k+1], ... in order, each followed by rest
first_of(alts, k, rest, s, i, caps) ==
    IF k > Len(alts) THEN NoMatch
    ELSE LET r == rmatch(alts[k] \o rest, s, i, caps)
         IN  IF r.ok THEN r ELSE first_of(alts, k + 1, rest, s, i, caps)

\* a repetition taking lens[1], lens[2], ... characters in order, stored as
\* group n when n > 0, followed by rest
try_spans(rest, s, i, caps, n, lens) ==
    IF Len(lens) = 0 THEN NoMatch
    ELSE LET k == Head(lens)
             r == rmatch(rest, s, i + k,
                         IF n = 0 THEN caps
                         ELSE [caps EXCEPT ![n] = SubSeq(s, i, i + k - 1)])
         IN  IF r.ok THEN r ELSE try_spans(rest, s, i, caps, n, Tail(lens))

\* the pattern re matched at position i of s: [ok, end (one past the match),
\* caps (the groups, None for a group that took no part)]
rmatch(re, s, i, caps) ==
    IF Len(re) = 0 THEN [ok |-> TRUE, start |-> i, end |-> i, caps |-> caps]
    ELSE LET h == Head(re)
             rest == Tail(re)
             left == Len(s) - i + 1
         IN  CASE h.t = "lit" ->
                    IF Len(h.x) <= left /\ SubSeq(s, i, i + Len(h.x) - 1) = h.x
                    THEN rmatch(rest, s, i + Len(h.x), caps)
                    ELSE NoMatch
               [] h.t = "alt" -> first_of(h.alts, 1, rest, s, i, caps)
               [] h.t = "group" ->
                    first_of([k \in 1..Len(h.alts) |->
                                 h.alts[k] \o <<rnode("close", "", h.n, <<i>>)>>],
                             1, rest, s, i, caps)
               [] h.t = "close" ->
                    rmatch(rest, s, i, [caps EXCEPT ![h.n] = SubSeq(s, h.alts[1], i - 1)])
               [] h.t = "ahead" ->
                    IF first_of(h.alts, 1, <<>>, s, i, caps).ok
                    THEN rmatch(rest, s, i, caps)
                    ELSE NoMatch
               [] h.t = "wb" ->
                    IF is_word_at(s, i - 1) # is_word_at(s, i)
                    THEN rmatch(rest, s, i, caps)
                    ELSE NoMatch
               [] h.t = "end" ->
                    IF i = Len(s) + 1 THEN rmatch(rest, s, i, caps) ELSE NoMatch
               [] h.t = "ws" ->
                    try_spans(rest, s, i, caps, 0,
                              descending(run_length(s, i, {" "}), h.n))
               [] h.t = "cap" /\ h.x = "lazy" ->
                    try_spans(rest, s, i, caps, h.n, ascending(1, left))
               [] h.t = "cap" /\ h.x = "greedy" ->
                    try_spans(rest, s, i, caps, h.n, descending(left, 1))
               [] h.t = "cap" /\ h.x = "word" ->
                    try_spans(rest, s, i, caps, h.n,
                              descending(run_length(s, i, WordChars), 1))
               [] h.t = "cap" /\ h.x = "digits" ->
                    try_spans(rest, s, i, caps, h.n,
                              descending(run_length(s, i, DigitChars), 1))
               [] h.t = "any" /\ h.x = "lazy" ->
                    try_spans(rest, s, i, caps, 0, ascending(0, left))
               [] h.t = "any" /\ h.x = "greedy" ->
                    try_spans(rest, s, i, caps, 0, descending(left, 0))

no_groups(n) == [k \in 1..n |-> None]

\* re.search(re, s) looking from position i on; n is the number of groups
RECURSIVE search_from(_, _, _, _)
search_from(re, n, s, i) ==
    IF i > Len(s) + 1 THEN NoMatch
    ELSE LET r == rmatch(re, s, i, no_groups(n))
         IN  IF r.ok THEN [r EXCEPT !.start = i] ELSE search_from(re, n, s, i + 1)

re_search(re, n, s) == search_from(re, n, s, 1)

\* re.match(re, s): the match has to start at the beginning
re_match(re, n, s) == rmatch(re, s, 1, no_groups(n))

\* re.fullmatch(re, s)
re_fullmatch(re, n, s) == rmatch(re \o <<End>>, s, 1, no_groups(n))

\* re.split(re, s) for a pattern without groups that matches no empty text
RECURSIVE re_split(_, _)
re_split(re, s) ==
    LET r == re_search(re, 0, s)
    IN  IF ~r.ok THEN <<s>>
        ELSE <<SubSeq(s, 1, r.start - 1)>> \o re_split(re, SubSeq(s, r.end, Len(s)))

-----------------------------------------------------------------------------
(* os.path (ntpath) *)

BS == "\\"

\* ntpath.splitdrive for drive-letter paths: <<drive, rest>>
splitdrive(p) ==
    IF Len(p) >= 2 /\ ch(p, 2) = ":" THEN <<SubSeq(p, 1, 2), SubSeq(p, 3, Len(p))>>
    ELSE <<"", p>>

\* the components of a path body with "" and "." dropped and ".." resolved
RECURSIVE resolve(_, _, _)
resolve(comps, acc, rooted) ==
    IF comps = <<>> THEN acc
    ELSE LET c == Head(comps)
         IN  IF c = "" \/ c = "." THEN resolve(Tail(comps), acc, rooted)
             ELSE IF c = ".."
                  THEN IF acc # <<>> /\ acc[Len(acc)] # ".."
                       THEN resolve(Tail(comps), SubSeq(acc, 1, Len(acc) - 1), rooted)
                       ELSE IF rooted THEN resolve(Tail(comps), acc, rooted)
                       ELSE resolve(Tail(comps), Append(acc, c), rooted)
             ELSE resolve(Tail(comps), Append(acc, c), rooted)

\* ntpath.normpath
normpath(p) ==
    LET assembled(drive, body) == IF drive = "" /\ body = "" THEN "." ELSE drive \o body
        normalized(drive, rest, rooted) ==
            assembled(drive, (IF rooted THEN BS ELSE "")
                                 \o join(resolve(split(rest, BS), <<>>, rooted), BS))
        of_parts(dr) == normalized(dr[1], dr[2], startswith(dr[2], BS))
    IN  of_parts(splitdrive(replace_char(p, "/", BS)))

\* ntpath.abspath, for the working directory wd
abspath_in(p, wd) ==
    LET anchored(q, dr) ==
            IF dr[1] # "" /\ startswith(dr[2], BS) THEN q
            ELSE IF dr[1] # "" THEN dr[1] \o BS \o dr[2]
            ELSE IF startswith(q, BS) THEN splitdrive(wd)[1] \o q
            ELSE wd \o BS \o q
        of_path(q) == anchored(q, splitdrive(q))
    IN  normpath(of_path(replace_char(p, "/", BS)))

abspath(p) == abspath_in(p, cwd)

\* os.path.join(a, b, ...) of relative parts onto a
path_join(parts) == join(parts, BS)

-----------------------------------------------------------------------------
(* SafetyGuard *)

\* the class-level list, as the raw string literals spell it
PROTECTED_PATHS_CLASS ==
    << "C:\\\\Windows",
       "C:\\\\Program Files",
       "C:\\\\Program Files (x86)",
       "C:\\\\ProgramData\\\\Microsoft",
       "C:\\\\System32",
       "C:\\\\$" >>

\* the list after SafetyGuard.__init__ extended it with the profile's trees
PROTECTED_PATHS ==
    IF userProfile # ""
    THEN PROTECTED_PATHS_CLASS \o
         << path_join(<<userProfile, "AppData", "Roaming", "Microsoft">>),
            path_join(<<userProfile, "AppData", "Local", "Microsoft">>) >>
    ELSE PROTECTED_PATHS_CLASS

\* (is_protected, protected_path)
is_path_protected(path) ==
    IF path = "" THEN <<FALSE, None>>
    ELSE LET first_of_hits(hits) ==
                 IF hits # {}
                 THEN <<TRUE, PROTECTED_PATHS[CHOOSE k \in hits : \A j \in hits : k <= j]>>
                 ELSE <<FALSE, None>>
             under(abs_path, protected_abs) ==
                 {k \in 1..Len(protected_abs) : startswith(abs_path, protected_abs[k])}
         IN  first_of_hits(under(abspath(path),
                                 [k \in 1..Len(PROTECTED_PATHS) |-> abspath(PROTECTED_PATHS[k])]))

common_system == <<"windows", "program files", "program files (x86)", "programdata">>

\* validate_file_operation without the check of the C:\ root system folders
validate_file_operation_no_root_check(operation, path) ==
    LET verdict(prot) ==
            IF prot[1]
            THEN <<FALSE, BLOCKED \o " BLOCKED: Cannot " \o operation
                            \o " in protected system directory: " \o prot[2]>>
            ELSE <<TRUE, TICK \o " Safe to proceed">>
    IN  verdict(is_path_protected(path))

\* (allowed, reason)
validate_file_operation(operation, path) ==
    LET verdict(prot, path_lower) ==
            IF prot[1]
            THEN <<FALSE, BLOCKED \o " BLOCKED: Cannot " \o operation
                            \o " in protected system directory: " \o prot[2]>>
            ELSE IF /\ startswith(path_lower, "c:\\")
                    /\ Len(split(path, BS)) <= 2
                    /\ \E k \in 1..Len(common_system) : contains(path_lower, common_system[k])
                 THEN <<FALSE, BLOCKED \o " BLOCKED: Cannot " \o operation
                                 \o " system directory: " \o path>>
                 ELSE <<TRUE, TICK \o " Safe to proceed">>
    IN  verdict(is_path_protected(path), lower(path))


-----------------------------------------------------------------------------
(* The filesystem and SafetyGuard's log, as one value threaded through calls *)

basename(path) ==
    LET parts == split(replace_char(path, "/", BS), BS) IN parts[Len(parts)]

dirname(path) ==
    LET parts == split(replace_char(path, "/", BS), BS)
    IN  join(SubSeq(parts, 1, Len(parts) - 1), BS)

exists(w, path) == abspath(path) \in w.files \cup w.dirs

isdir(w, path) == abspath(path) \in w.dirs

\* SafetyGuard.validate_file_operation was called on the shared guard and
\* gave the verdict allowed: the call recorded
validated(w, operation, path, allowed) ==
    [w EXCEPT !.validations = Append(@, <<operation, path, allowed[1]>>)]

\* SafetyGuard.log_action: one entry appended; the write to the log file may
\* fail and is swallowed, it changes nothing here
log_action(w, action, target, status) ==
    [w EXCEPT !.action_log = Append(@, <<action, target, status>>)]

\* a filesystem-modifying library call recorded as attempted
\* with the number of validations made before it
attempted(w, fn, args) ==
    [w EXCEPT !.fsCalls = Append(@, <<fn, args, Len(w.validations)>>)]

\* where shutil.move / shutil.copy2 put src when dst is given
landing(w, src, dst) ==
    LET put(abs_dst) == IF abs_dst \in w.dirs THEN abs_dst \o BS \o basename(src) ELSE abs_dst
    IN  put(abspath(dst))

\* shutil.move(src, dst) succeeded
moved(w, src, dst) ==
    LET carried(abs_src, to) ==
            IF abs_src \in w.dirs
            THEN [w EXCEPT !.dirs = (@ \ {abs_src}) \cup {to}]
            ELSE [w EXCEPT !.files = (@ \ {abs_src}) \cup {to}]
    IN  carried(abspath(src), landing(w, src, dst))

\* whether shutil.move(src, dst) raises: oserr is the operating system
\* refusing (permissions, a locked file, ...)
move_raises(w, src, dst, oserr) == oserr \/ ~exists(w, src)

-----------------------------------------------------------------------------
(* FileManager: each method returns [ret |-> (success, message), w |-> world] *)

copy_file(w, source, destination, oserr) ==
    LET target == source \o " -> " \o destination
        copied(w1, src_is_dir, failing, grown) ==
            IF failing
            THEN [ret |-> <<FALSE, CROSS \o " Copy failed: error">>,
                  w |-> log_action(w1, "COPY", target, "FAILED: error")]
            ELSE [ret |-> <<TRUE, TICK \o (IF src_is_dir THEN " Copied folder: "
                                           ELSE " Copied file: ") \o basename(source)>>,
                  w |-> log_action(grown, "COPY", target, "SUCCESS")]
        copying(w1, src_is_dir) ==
            IF src_is_dir
            THEN LET w2 == attempted(w1, "shutil.copytree", <<source, destination>>)
                 IN  copied(w2, TRUE, oserr \/ exists(w, destination),
                            [w2 EXCEPT !.dirs = @ \cup {abspath(destination)}])
            ELSE LET w2 == attempted(w1, "shutil.copy2", <<source, destination>>)
                 IN  copied(w2, FALSE, oserr \/ ~exists(w, source),
                            [w2 EXCEPT !.files = @ \cup {landing(w, source, destination)}])
        checked(allowed_src, allowed_dst, w1) ==
            IF ~allowed_src[1] THEN [ret |-> <<FALSE, allowed_src[2]>>, w |-> w1]
            ELSE IF ~allowed_dst[1] THEN [ret |-> <<FALSE, allowed_dst[2]>>, w |-> w1]
            ELSE copying(w1, isdir(w, source))
        validating(allowed_src, allowed_dst) ==
            checked(allowed_src, allowed_dst,
                    validated(validated(w, "copy", source, allowed_src),
                              "copy", destination, allowed_dst))
    IN  validating(validate_file_operation("copy", source),
                   validate_file_operation("copy", destination))

\* the part of move_file after the validations: shutil.move and the log
move_checked(w, w1, source, destination, oserr) ==
    LET target == source \o " -> " \o destination
        w2 == attempted(w1, "shutil.move", <<source, destination>>)
    IN  IF move_raises(w, source, destination, oserr)
        THEN [ret |-> <<FALSE, CROSS \o " Move failed: error">>,
              w |-> log_action(w2, "MOVE", target, "FAILED: error")]
        ELSE [ret |-> <<TRUE, TICK \o " Moved: " \o basename(source)>>,
              w |-> log_action(moved(w2, source, destination), "MOVE", target, "SUCCESS")]

\* move_file validating the source only
move_file_unchecked_destination(w, source, destination, oserr) ==
    LET checked(allowed_src, w1) ==
            IF ~allowed_src[1] THEN [ret |-> <<FALSE, allowed_src[2]>>, w |-> w1]
            ELSE move_checked(w, w1, source, destination, oserr)
        validating(allowed_src) ==
            checked(allowed_src, validated(w, "move", source, allowed_src))
    IN  validating(validate_file_operation("move", source))

move_file(w, source, destination, oserr) ==
    LET checked(allowed_src, allowed_dst, w1) ==
            IF ~allowed_src[1] THEN [ret |-> <<FALSE, allowed_src[2]>>, w |-> w1]
            ELSE IF ~allowed_dst[1] THEN [ret |-> <<FALSE, allowed_dst[2]>>, w |-> w1]
            ELSE move_checked(w, w1, source, destination, oserr)
        validating(allowed_src, allowed_dst) ==
            checked(allowed_src, allowed_dst,
                    validated(validated(w, "move", source, allowed_src),
                              "move", destination, allowed_dst))
    IN  validating(validate_file_operation("move", source),
                   validate_file_operation("move", destination))

rename_file(w, old_path, new_name, oserr) ==
    LET target == old_path \o " -> " \o new_name
        renamed(w2, abs_old, abs_new) ==
            IF oserr \/ abs_old \notin w.files \cup w.dirs \/ abs_new \in w.files \cup w.dirs
            THEN [ret |-> <<FALSE, CROSS \o " Rename failed: error">>,
                  w |-> log_action(w2, "RENAME", target, "FAILED: error")]
            ELSE [ret |-> <<TRUE, TICK \o " Renamed to: " \o new_name>>,
                  w |-> log_action(
                           IF abs_old \in w.dirs
                           THEN [w2 EXCEPT !.dirs = (@ \ {abs_old}) \cup {abs_new}]
                           ELSE [w2 EXCEPT !.files = (@ \ {abs_old}) \cup {abs_new}],
                           "RENAME", target, "SUCCESS")]
        renaming(w1, new_path) ==
            renamed(attempted(w1, "os.rename", <<old_path, new_path>>),
                    abspath(old_path), abspath(new_path))
        checked(allowed, w1) ==
            IF ~allowed[1] THEN [ret |-> <<FALSE, allowed[2]>>, w |-> w1]
            ELSE renaming(w1, dirname(old_path) \o BS \o new_name)
        validating(allowed) == checked(allowed, validated(w, "rename", old_path, allowed))
    IN  validating(validate_file_operation("rename", old_path))

delete_to_recycle(w, path, oserr) ==
    LET deleted(w1, abs_path) ==
            IF abs_path \notin w.files \cup w.dirs
            THEN [ret |-> <<FALSE, CROSS \o " File not found: " \o path>>, w |-> w1]
            ELSE LET w2 == attempted(w1, "send2trash", <<path>>)
                 IN  IF oserr
                     THEN [ret |-> <<FALSE, CROSS \o " Delete failed: error">>,
                           w |-> log_action(w2, "DELETE", path, "FAILED: error")]
                     ELSE [ret |-> <<TRUE, TICK \o " Moved to Recycle Bin: "
                                             \o basename(path)>>,
                           w |-> log_action([w2 EXCEPT !.files = @ \ {abs_path},
                                                       !.dirs = @ \ {abs_path}],
                                            "DELETE (Recycle Bin)", path, "SUCCESS")]
        checked(allowed, w1) ==
            IF ~allowed[1] THEN [ret |-> <<FALSE, allowed[2]>>, w |-> w1]
            ELSE deleted(w1, abspath(path))
        validating(allowed) == checked(allowed, validated(w, "delete", path, allowed))
    IN  validating(validate_file_operation("delete", path))

\* os.path.expanduser: a leading ~ becomes the user's home
expanduser(path) ==
    IF path = "~" THEN userProfile
    ELSE IF startswith(path, "~/") \/ startswith(path, "~\\")
         THEN userProfile \o SubSeq(path, 2, Len(path))
         ELSE path

\* the members of a set as a sequence, in some fixed order
RECURSIVE as_sequence(_)
as_sequence(S) ==
    IF S = {} THEN <<>>
    ELSE LET x == CHOOSE x \in S : TRUE IN <<x>> \o as_sequence(S \ {x})

\* the entry list_files / search_files build for one item
file_entry(w, p) ==
    [name |-> basename(p), path |-> p, type |-> IF p \in w.dirs THEN "folder" ELSE "file"]

\* FileManager.list_files(directory): [ret |-> the list, w |-> world]; the
\* list is <<[error |-> reason]>> or the directory's entries, folders first
list_files(w, directory) ==
    LET entries(inside) ==
            as_sequence({file_entry(w, p) : p \in inside \cap w.dirs})
                \o as_sequence({file_entry(w, p) : p \in inside \ w.dirs})
        listed(target_dir, w1, abs_dir) ==
            IF abs_dir \notin w.files \cup w.dirs
            THEN [ret |-> <<[error |-> "Directory not found: " \o target_dir]>>, w |-> w1]
            ELSE [ret |-> entries({p \in w.files \cup w.dirs :
                                      dirname(p) = abs_dir /\ p # abs_dir}),
                  w |-> [w1 EXCEPT !.current_directory = abs_dir]]
        checked(target_dir, allowed, w1) ==
            IF ~allowed[1] THEN [ret |-> <<[error |-> allowed[2]]>>, w |-> w1]
            ELSE listed(target_dir, w1, abspath(target_dir))
        validating(target_dir, allowed) ==
            checked(target_dir, allowed, validated(w, "list", target_dir, allowed))
        of_dir(target_dir) ==
            validating(target_dir, validate_file_operation("list", target_dir))
    IN  of_dir(IF directory = None \/ directory = "" THEN w.current_directory
               ELSE directory)

\* FileManager.search_files(pattern, directory): items below the directory
\* whose name contains the pattern
search_files(w, pattern, directory) ==
    LET found(abs_dir, pattern_lower) ==
            {p \in w.files \cup w.dirs :
                /\ startswith(p, abs_dir \o BS)
                /\ contains(lower(basename(p)), pattern_lower)}
        checked(search_dir, allowed, w1) ==
            IF ~allowed[1] THEN [ret |-> <<[error |-> allowed[2]]>>, w |-> w1]
            ELSE [ret |-> as_sequence({file_entry(w, p) :
                                          p \in found(abspath(search_dir), lower(pattern))}),
                  w |-> w1]
        validating(search_dir, allowed) ==
            checked(search_dir, allowed, validated(w, "search", search_dir, allowed))
        of_dir(search_dir) ==
            validating(search_dir, validate_file_operation("search", search_dir))
    IN  of_dir(IF directory = None \/ directory = "" THEN w.current_directory
               ELSE directory)

\* files and 'error' not in files[0]
listing_ok(files) == files # <<>> /\ "error" \notin DOMAIN files[1]

-----------------------------------------------------------------------------
(* ActionExecutor *)

action_map ==
    {"list_files", "open_app", "open_file", "type_text", "press_key", "search_files",
     "search_web", "create_folder", "move_file", "copy_file", "screenshot",
     "open_browser", "wait", "focus_window", "click_element", "scroll"}

\* the keyword parameters each handler requires and those it defaults
required_params(action) ==
    CASE action = "list_files"    -> {}
      [] action = "open_app"      -> {"app_name"}
      [] action = "open_file"     -> {"path"}
      [] action = "type_text"     -> {"text"}
      [] action = "press_key"     -> {"key"}
      [] action = "search_files"  -> {"pattern"}
      [] action = "search_web"    -> {"query"}
      [] action = "create_folder" -> {"path"}
      [] action = "move_file"     -> {"source", "destination"}
      [] action = "copy_file"     -> {"source", "destination"}
      [] action = "screenshot"    -> {}
      [] action = "open_browser"  -> {"url"}
      [] action = "wait"          -> {}
      [] action = "focus_window"  -> {"window_name"}
      [] action = "click_element" -> {"element"}
      [] action = "scroll"        -> {}

optional_params(action) ==
    CASE action = "list_files"   -> {"directory"}
      [] action = "search_files" -> {"directory"}
      [] action = "search_web"   -> {"engine"}
      [] action = "wait"         -> {"seconds"}
      [] action = "scroll"       -> {"direction", "amount"}
      [] OTHER                   -> {}

\* self.action_map[action_name](**params) binds: every required parameter
\* given, none given that the handler does not declare
binds(action, params) ==
    /\ required_params(action) \subseteq DOMAIN params
    /\ DOMAIN params \subseteq required_params(action) \cup optional_params(action)

\* params[name], or the handler's default
arg(params, name, default) == IF name \in DOMAIN params THEN params[name] ELSE default

\* what time.sleep accepts
Numbers == {"0.5", "1", "2", "3"}

returned(success, message, w) == [raised |-> FALSE, ret |-> <<success, message>>, w |-> w]

raising(message, w) == [raised |-> TRUE, ret |-> <<FALSE, message>>, w |-> w]

\* One handler call. oserr: the operating-system call the handler makes
\* (os.startfile, pyautogui, os.makedirs, shutil, win32gui ...) fails.
\* The result is what the handler returns, or that it raised.
handler(w, action, params, oserr) ==
    CASE action = "open_file" ->
            IF exists(w, expanduser(params.path))
            THEN IF oserr THEN returned(FALSE, "Failed to open: error", w)
                 ELSE returned(TRUE, TICK \o " Opened " \o params.path, w)
            ELSE returned(FALSE, "File not found: " \o params.path, w)
      [] action = "press_key" ->
            returned(TRUE, TICK \o " Pressed " \o params.key, w)
      [] action = "search_web" ->
            IF oserr THEN returned(FALSE, "Search failed: error", w)
            ELSE returned(TRUE, TICK \o " Searching: " \o params.query, w)
      [] action = "list_files" ->
            LET listed(r) ==
                    IF listing_ok(r.ret)
                    THEN returned(TRUE, TICK \o " Listed " \o ToString(Len(r.ret))
                                        \o " items in " \o r.w.current_directory, r.w)
                    ELSE IF r.ret # <<>> THEN returned(FALSE, r.ret[1].error, r.w)
                    ELSE returned(FALSE, "No files found", r.w)
            IN  listed(list_files(w, arg(params, "directory", None)))
      [] action = "open_app" ->
            IF oserr THEN returned(FALSE, "Failed to open " \o params.app_name \o ": error", w)
            ELSE returned(TRUE, TICK \o " Opened " \o params.app_name, w)
      [] action = "type_text" ->
            IF oserr THEN returned(FALSE, CROSS \o " Failed to type: error", w)
            ELSE returned(TRUE, TICK \o " Typed: " \o params.text, w)
      [] action = "search_files" ->
            LET searched(r) ==
                    IF listing_ok(r.ret)
                    THEN returned(TRUE, TICK \o " Found " \o ToString(Len(r.ret))
                                        \o " files matching '" \o params.pattern \o "'", r.w)
                    ELSE returned(FALSE, "No files found", r.w)
            IN  searched(search_files(w, params.pattern, arg(params, "directory", None)))
      [] action = "create_folder" ->
            LET w1 == attempted(w, "os.makedirs", <<params.path>>)
            IN  IF oserr THEN returned(FALSE, "Failed to create folder: error", w1)
                ELSE returned(TRUE, TICK \o " Created folder: " \o params.path,
                              [w1 EXCEPT !.dirs = @ \cup {abspath(params.path)}])
      [] action = "move_file" ->
            LET result(r) == returned(r.ret[1], r.ret[2], r.w)
            IN  result(move_file(w, params.source, params.destination, oserr))
      [] action = "copy_file" ->
            LET result(r) == returned(r.ret[1], r.ret[2], r.w)
            IN  result(copy_file(w, params.source, params.destination, oserr))
      [] action = "screenshot" ->
            IF oserr THEN returned(FALSE, CROSS \o " Screenshot failed: error", w)
            ELSE returned(TRUE, TICK \o " Screenshot saved: screenshot.png", w)
      [] action = "open_browser" ->
            IF oserr THEN returned(FALSE, "Failed: error", w)
            ELSE returned(TRUE, TICK \o " Opened "
                                \o (IF startswith(params.url, "http") THEN params.url
                                    ELSE "https://" \o params.url), w)
      [] action = "wait" ->
            IF arg(params, "seconds", "1") \in Numbers
            THEN returned(TRUE, TICK \o " Waited " \o arg(params, "seconds", "1") \o "s", w)
            ELSE raising("an integer is required", w)
      [] action = "focus_window" ->
            IF oserr THEN returned(FALSE, CROSS \o " Window not found: " \o params.window_name, w)
            ELSE returned(TRUE, TICK \o " Focused: " \o params.window_name, w)
      [] action = "click_element" ->
            returned(FALSE, "Click element not yet implemented", w)
      [] action = "scroll" ->
            IF lower(arg(params, "direction", "down")) \notin {"down", "up"}
            THEN returned(FALSE, CROSS \o " Direction must be 'up' or 'down'", w)
            ELSE IF oserr THEN returned(FALSE, CROSS \o " Scroll failed: error", w)
            ELSE returned(TRUE, TICK \o " Scrolled " \o arg(params, "direction", "down"), w)

\* self.action_map[action_name](**params): a call that does not bind raises
\* TypeError before the handler runs
dispatch(w, action, params, oserr) ==
    IF binds(action, params) THEN handler(w, action, params, oserr)
    ELSE raising(action \o "() got an unexpected keyword argument or misses one", w)

\* str(e)[:100]
truncated(message, n) == SubSeq(message, 1, Min(n, Len(message)))

\* One iteration of the loop of execute_plan for step i of n:
\* [msg |-> the result appended, kind |-> what happened, w |-> world]
run_step(w, i, n, step, oserr) ==
    IF step.action \notin action_map
    THEN [msg  |-> XMARK \o " Step " \o ToString(i) \o "/" \o ToString(n)
                   \o ": Unknown action '" \o step.action \o "'",
          kind |-> "unknown", w |-> w]
    ELSE LET reported(d) ==
                 IF d.raised
                 THEN [msg  |-> CROSS \o " Step " \o ToString(i) \o ": "
                                \o truncated(d.ret[2], 100),
                       kind |-> "raised", w |-> d.w]
                 ELSE IF d.ret[1]
                 THEN [msg  |-> TICK \o " Step " \o ToString(i) \o ": " \o d.ret[2],
                       kind |-> "succeeded", w |-> d.w]
                 ELSE [msg  |-> CROSS \o " Step " \o ToString(i) \o ": " \o d.ret[2],
                       kind |-> "failed", w |-> d.w]
         IN  reported(dispatch(w, step.action, step.params, oserr))

\* an exception in one step ends the loop
after_step_abort_on_raise(i, n, kind) ==
    IF i = n \/ kind = "raised" THEN "return" ELSE "loop"

\* where execute_plan goes after step i of n: the loop runs to the end of
\* the plan whatever the step did
after_step(i, n, kind) == IF i = n THEN "return" ELSE "loop"

\* success = all("✓" in r for r in results)
overall_success(rs) == \A k \in 1..Len(rs) : contains(rs[k], TICK)

-----------------------------------------------------------------------------
(* SmartTemplateMatcher *)

\* (?:files?)
Files == <<Lit("file"), Opt(<<Lit("s")>>)>>

\* self.templates, in order: pattern, number of groups, action, extract
templates ==
    << [pattern |-> <<OneOf(<<"list", "show", "display", "get">>), Ws,
                      Opt(<<Lit("all"), Ws>>), Opt(Files \o <<Ws>>), Opt(<<Lit("in"), Ws>>),
                      Lazy(1),
                      Alt(<< <<Ws, Lit("folder")>>, <<Ws, Lit("directory")>>, <<End>> >>)>>,
        action |-> "list_files", extract |-> <<"location">>],
       [pattern |-> <<OneOf(<<"find", "search", "locate">>), Ws, Opt(<<Lit("all"), Ws>>),
                      Lazy(1), Ws, Alt(<<Files, <<Lit("in")>> >>), Ws, Greedy(2)>>,
        action |-> "search_files", extract |-> <<"file_type", "location">>],
       [pattern |-> <<OneOf(<<"find", "search", "locate">>), Ws, Opt(<<Lit("all"), Ws>>),
                      Lazy(1), Opt(<<Ws>> \o Files), End>>,
        action |-> "search_files", extract |-> <<"file_type">>],
       [pattern |-> <<OneOf(<<"organize", "sort", "arrange">>), Ws, Lazy(1),
                      Opt(<<Ws, Lit("by"), Ws, Lazy(2)>>), End>>,
        action |-> "organize", extract |-> <<"location", "criteria">>],
       [pattern |-> <<OneOf(<<"move", "copy">>), Ws, Lazy(1), Ws,
                      OneOf(<<"to", "into">>), Ws, Greedy(2)>>,
        action |-> "move_copy", extract |-> <<"source", "destination">>],
       [pattern |-> <<OneOf(<<"delete", "remove">>), Ws, Greedy(1)>>,
        action |-> "delete", extract |-> <<"target">>],
       [pattern |-> <<OneOf(<<"list", "show">>), Ws, Lazy(1), Ws,
                      OneOf(<<"in", "to">>), Ws, Greedy(2)>>,
        action |-> "list_to_app", extract |-> <<"what", "where">>],
       [pattern |-> <<OneOf(<<"make", "create">>), Ws, Opt(<<Lit("a"), Ws>>), Lit("list"),
                      Ws, Lit("of"), Ws, Lazy(1), Ws, Lit("in"), Ws, Greedy(2)>>,
        action |-> "make_list", extract |-> <<"content", "app">>],
       [pattern |-> <<Lit("open"), Ws, Lazy(1), Ws, OneOf(<<"and", "then">>), Ws, Greedy(2)>>,
        action |-> "open_and_do", extract |-> <<"app", "action">>],
       [pattern |-> <<OneOf(<<"search", "find">>), Ws, Lazy(1), Ws,
                      OneOf(<<"in", "on">>), Ws, Greedy(2)>>,
        action |-> "search_in_app", extract |-> <<"query", "app">>] >>

location_map ==
    [ downloads |-> "~/Downloads", download |-> "~/Downloads",
      documents |-> "~/Documents", document |-> "~/Documents",
      desktop |-> "~/Desktop", pictures |-> "~/Pictures", picture |-> "~/Pictures",
      videos |-> "~/Videos", video |-> "~/Videos", music |-> "~/Music" ]

upper_char(c) ==
    IF \E k \in 1..26 : LowerOf[k] = c
    THEN ch(UpperChars, CHOOSE k \in 1..26 : LowerOf[k] = c)
    ELSE c

\* _expand_location: a drive ("d", "d drive", "d:") becomes its root, a
\* well-known folder name its path under the home directory
_expand_location(location) ==
    IF location = "" THEN None
    ELSE LET loc == lower(strip(location))
         IN  IF /\ loc # "" /\ upper_char(ch(loc, 1)) # ch(loc, 1)
                /\ strip(SubSeq(loc, 2, Len(loc))) \in {"", "drive", ":"}
             THEN upper_char(ch(loc, 1)) \o ":\\"
             ELSE IF loc \in DOMAIN location_map THEN location_map[loc]
             ELSE loc

command_verbs ==
    <<"open", "close", "write", "list", "show", "find", "search", "play", "pause",
      "stop", "click", "type", "make", "organize", "browse", "get", "create", "display">>

\* a split at every conjunction, whatever follows it
split_pattern_any_conjunction == <<Ws, OneOf(<<"and", "then">>), Ws>>

\* \s+(?:and|then)\s+(?=(?:open|close|...)\b)
split_pattern ==
    <<Ws, OneOf(<<"and", "then">>), Ws,
      Ahead([k \in 1..Len(command_verbs) |-> <<Lit(command_verbs[k]), WordEnd>>])>>

NoParams == [x \in {} |-> ""]

NoTemplate == [action |-> None, params |-> NoParams]

\* the params dict of a template match: a group that matched, stripped
\* (and expanded when it is a location), under its name
extracted(extract, caps) ==
    [name \in {extract[k] : k \in {j \in 1..Len(extract) : caps[j] # None}} |->
        LET k == CHOOSE j \in 1..Len(extract) : extract[j] = name
            value == strip(caps[k])
        IN  IF name = "location" THEN _expand_location(value) ELSE value]

\* the first template from the k-th on that matches
RECURSIVE first_template(_, _)
first_template(command_lower, k) ==
    IF k > Len(templates) THEN NoTemplate
    ELSE LET t == templates[k]
             m == re_search(t.pattern, Len(t.extract), command_lower)
         IN  IF m.ok THEN [action |-> t.action, params |-> extracted(t.extract, m.caps)]
             ELSE first_template(command_lower, k + 1)

\* match splitting a chain at its first conjunction only
match_split_once(command) ==
    LET command_lower == strip(lower(command))
        r == re_search(split_pattern, 0, command_lower)
    IN  IF r.ok
        THEN [action |-> "chain_execution",
              params |-> [commands |-> <<SubSeq(command_lower, 1, r.start - 1),
                                         SubSeq(command_lower, r.end, Len(command_lower))>>]]
        ELSE first_template(command_lower, 1)

\* SmartTemplateMatcher.match(command): [action, params], NoTemplate for None
match(command) ==
    LET command_lower == strip(lower(command))
    IN  IF re_search(split_pattern, 0, command_lower).ok
        THEN [action |-> "chain_execution",
              params |-> [commands |-> re_split(split_pattern, command_lower)]]
        ELSE first_template(command_lower, 1)

-----------------------------------------------------------------------------
(* VisionAI.instant_execute *)

APP_SHORTCUTS ==
    {"chrome", "browser", "notepad", "note", "calculator", "calc", "paint", "explorer",
     "files", "cmd", "terminal", "command", "powershell", "ps", "word", "msword",
     "excel", "msexcel", "vscode", "vs code", "code", "spotify", "music", "discord",
     "zoom", "teams", "slack", "outlook", "mail", "whatsapp", "wa"}

URL_SHORTCUTS ==
    {"youtube", "yt", "gmail", "mail", "github", "git", "twitter", "x", "facebook",
     "fb", "linkedin", "reddit", "whatsapp", "wa"}

\* what the collaborators of one call do: oserr, an operating-system call
\* (os.startfile, subprocess, the browser driver) raises; ok, the window,
\* application or page looked for is there
Envs == [oserr : BOOLEAN, ok : BOOLEAN]

\* the ContextManager fields the routing reads and writes; fresh stands for
\* is_context_fresh()
InitialContext ==
    [youtube_active |-> FALSE, browser_active |-> FALSE, current_app |-> None,
     fresh |-> FALSE, videos |-> 0, youtube_current_index |-> -1]

\* launch_app(app_name): true when one of its four ways starts the
\* application
launch_app(app_name, env) == env.ok

\* automate_youtube(query): a browser session searches YouTube; with results
\* the context becomes the YouTube one and the command is added to it
automate_youtube(c, query, env) ==
    IF ~env.oserr /\ env.ok
    THEN [c EXCEPT !.youtube_active = TRUE, !.browser_active = FALSE,
                   !.current_app = "youtube", !.videos = 2, !.fresh = TRUE]
    ELSE c

fired(rule, w, c) == [ret |-> TRUE, raised |-> FALSE, rule |-> rule, w |-> w, c |-> c]

raised_in(rule, w, c) == [ret |-> FALSE, raised |-> TRUE, rule |-> rule, w |-> w, c |-> c]

no_rule(w, c) == [ret |-> FALSE, raised |-> FALSE, rule |-> "none", w |-> w, c |-> c]

\* int(digits)
RECURSIVE int_of(_)
int_of(digits) ==
    IF digits = "" THEN 0
    ELSE 10 * int_of(SubSeq(digits, 1, Len(digits) - 1))
         + ((CHOOSE k \in 1..10 : ch("0123456789", k) = ch(digits, Len(digits))) - 1)

word_to_num ==
    [first |-> 1, second |-> 2, third |-> 3, fourth |-> 4, fifth |-> 5] @@
    ("1st" :> 1) @@ ("2nd" :> 2) @@ ("3rd" :> 3) @@ ("4th" :> 4) @@ ("5th" :> 5)

\* (?:play|click|open|select)\s+(?:the\s+)?(first|...|5th|(\d+)(?:st|nd|rd|th)?)\s*(?:video|one)?
select_pattern ==
    <<OneOf(<<"play", "click", "open", "select">>), Ws, Opt(<<Lit("the"), Ws>>),
      Group(1, << <<Lit("first")>>, <<Lit("second")>>, <<Lit("third")>>, <<Lit("fourth")>>,
                  <<Lit("fifth")>>, <<Lit("1st")>>, <<Lit("2nd")>>, <<Lit("3rd")>>,
                  <<Lit("4th")>>, <<Lit("5th")>>,
                  <<Digits(2), Opt(<<OneOf(<<"st", "nd", "rd", "th">>)>>)>> >>),
      WsOpt, Opt(<<OneOf(<<"video", "one">>)>>)>>

\* \b(w1|w2|...)\b
whole_word(ws) == <<WordEnd, OneOf(ws), WordEnd>>

\* \b(w1|w2|...)\s*(?:t1|t2|...)?\b
word_then(ws, tails) == <<WordEnd, OneOf(ws), WsOpt, Opt(<<OneOf(tails)>>), WordEnd>>

found(re, text) == re_search(re, 2, text).ok

\* the YouTube follow-up rules, tried while the YouTube context is active
\* and fresh
youtube_followup(w, c, text, env) ==
    LET before == c.youtube_current_index
        selected(video_num) ==
            IF 1 <= video_num /\ video_num <= c.videos /\ ~env.oserr
            THEN fired("yt_select", w, [c EXCEPT !.youtube_current_index = video_num - 1])
            ELSE fired("yt_select", w, c)
        video_num_of(num_str, digits) ==
            IF num_str \in DOMAIN word_to_num THEN word_to_num[num_str]
            ELSE IF digits # None THEN int_of(digits) ELSE 1
        m == re_search(select_pattern, 2, text)
    IN  IF m.ok
        THEN selected(video_num_of(m.caps[1], m.caps[2]))
        ELSE IF found(word_then(<<"next", "skip">>, <<"video">>), text)
        THEN IF before < c.videos - 1
             THEN fired("yt_next", w, [c EXCEPT !.youtube_current_index = before + 1])
             ELSE fired("yt_next", w, c)
        ELSE IF found(word_then(<<"previous", "back", "prior">>, <<"video">>), text)
        THEN IF before > 0
             THEN fired("yt_previous", w, [c EXCEPT !.youtube_current_index = before - 1])
             ELSE fired("yt_previous", w, c)
        ELSE IF found(word_then(<<"pause", "stop">>, <<"video", "it">>), text)
        THEN fired("yt_pause", w, c)
        ELSE IF /\ found(whole_word(<<"play", "resume", "unpause">>), text)
                /\ ~contains(text, "first") /\ ~contains(text, "second")
                /\ ~contains(text, "third")
        THEN fired("yt_play", w, c)
        ELSE IF found(whole_word(<<"fullscreen", "full screen", "maximize video">>), text)
        THEN fired("yt_fullscreen", w, c)
        ELSE IF found(whole_word(<<"forward", "skip ahead", "skip forward">>), text)
        THEN fired("yt_forward", w, c)
        ELSE IF /\ found(whole_word(<<"backward", "rewind", "skip back", "go back">>), text)
                /\ ~contains(text, "video")
        THEN fired("yt_backward", w, c)
        ELSE IF found(whole_word(<<"speed up", "faster", "increase speed">>), text)
        THEN fired("yt_faster", w, c)
        ELSE IF found(whole_word(<<"slow down", "slower", "decrease speed", "normal speed">>),
                      text)
        THEN fired("yt_slower", w, c)
        ELSE no_rule(w, c)

\* the window, volume, screenshot and typing rules
window_rules(w, c, text, env) ==
    IF found(<<WordEnd, OneOf(<<"scroll", "page">>), Ws, OneOf(<<"down", "up">>), WordEnd>>,
             text)
    THEN fired("scroll", w, c)
    ELSE IF found(<<WordEnd, Opt(<<Lit("set"), Ws>>), Lit("volume"), Ws,
                    Opt(<<Lit("to"), Ws>>), Digits(1)>>, text)
    THEN fired("volume", w, c)
    ELSE IF contains(text, "volume up") \/ contains(text, "increase volume")
    THEN fired("volume_up", w, c)
    ELSE IF contains(text, "volume down") \/ contains(text, "decrease volume")
    THEN fired("volume_down", w, c)
    ELSE IF contains(text, "mute") \/ contains(text, "unmute")
    THEN fired("mute", w, c)
    ELSE IF \/ found(<<WordEnd, OneOf(<<"take", "capture">>), Ws, Opt(<<Lit("a"), Ws>>),
                       Lit("screenshot"), WordEnd>>, text)
            \/ /\ found(whole_word(<<"screenshot">>), text)
               /\ ~(contains(text, "open") \/ contains(text, "file"))
    THEN fired("screenshot", w, c)
    ELSE IF found(<<WordEnd, OneOf(<<"minimize", "maximise", "maximize", "close">>), Ws,
                    Word(1)>>, text)
    THEN fired("window", w, c)
    ELSE IF contains(text, "snap left") \/ contains(text, "snap window left")
    THEN fired("snap_left", w, c)
    ELSE IF contains(text, "snap right") \/ contains(text, "snap window right")
    THEN fired("snap_right", w, c)
    ELSE IF found(<<WordEnd, OneOf(<<"write", "type">>), Ws, Greedy(1)>>, text)
    THEN fired("type", w, [c EXCEPT !.current_app = "notepad"])
    ELSE no_rule(w, c)

\* os.path.expandvars for the profile variable
expandvars(path) ==
    replace(replace(path, "%userprofile%", userProfile), "%USERPROFILE%", userProfile)

\* \b(?:show|list|display)\s+(?:files?\s+(?:in\s+)?)?(.+?)(?:\s+folder|\s+directory|$)
list_rule_pattern ==
    <<WordEnd, OneOf(<<"show", "list", "display">>), Ws,
      Opt(Files \o <<Ws, Opt(<<Lit("in"), Ws>>)>>), Lazy(1),
      Alt(<< <<Ws, Lit("folder")>>, <<Ws, Lit("directory")>>, <<End>> >>)>>

\* \s+to\s+(google|keep|notepad|docs?|chrome|browser|web)
to_app_pattern ==
    <<Ws, Lit("to"), Ws,
      OneOf(<<"google", "keep", "notepad", "doc", "chrome", "browser", "web">>)>>

folder_map ==
    [ downloads |-> "~/Downloads", documents |-> "~/Documents", desktop |-> "~/Desktop",
      pictures |-> "~/Pictures", videos |-> "~/Videos" ]

\* \b(?:find|search|locate)\s+(?:file\s+)?(.+)
search_rule_pattern ==
    <<WordEnd, OneOf(<<"find", "search", "locate">>), Ws, Opt(<<Lit("file"), Ws>>),
      Greedy(1)>>

\* the file listing and file search rules
file_rules(w, c, text, env) ==
    LET listed(r) ==
            IF listing_ok(r.ret)
            THEN fired("list_files", r.w, [c EXCEPT !.current_app = "file_explorer"])
            ELSE fired("list_files", r.w, c)
        folder(named, named_lower) ==
            IF named_lower \in DOMAIN folder_map THEN expanduser(folder_map[named_lower])
            ELSE named
        folder_named(named) == folder(named, lower(named))
        lm == re_search(list_rule_pattern, 1, text)
        sm == re_search(search_rule_pattern, 1, text)
    IN  IF lm.ok /\ ~found(to_app_pattern, text)
        THEN listed(list_files(w, folder_named(strip(lm.caps[1]))))
        ELSE IF /\ sm.ok
                /\ ~contains(text, "google") /\ ~contains(text, "web")
                /\ ~startswith(text, "search ")
                /\ ~found(<<Ws, Lit("to"), Ws>>, text)
        THEN fired("search_files", search_files(w, strip(sm.caps[1]), None).w, c)
        ELSE no_rule(w, c)

\* (?:browse|search|play|find|open)
YoutubeVerbs == OneOf(<<"browse", "search", "play", "find", "open">>)

\* \s+(?:on\s+)?(?:youtube|yt)(?:\s|$)
youtube_suffix ==
    <<Ws, Opt(<<Lit("on"), Ws>>), OneOf(<<"youtube", "yt">>),
      Alt(<< <<Lit(" ")>>, <<End>> >>)>>

\* the query of "XYZ youtube": what precedes the suffix, without a leading
\* command word; "" when there is none
youtube_query(text) ==
    LET unverbed(before, verb) ==
            IF verb.ok THEN SubSeq(before, verb.end, Len(before)) ELSE before
        query_of(before) == unverbed(before, re_match(<<YoutubeVerbs, Ws>>, 0, before))
        preceding(m) == IF m.ok THEN strip(SubSeq(text, 1, m.start - 1)) ELSE ""
    IN  query_of(preceding(re_search(youtube_suffix, 0, text)))

\* the "open X" rule once X is known
open_rule(w, c, full_target, env) ==
    LET opened(app, query) ==
            IF exists(w, full_target) THEN fired("open_path", w, c)
            ELSE IF exists(w, expandvars(expanduser(full_target)))
            THEN fired("open_expanded_path", w, c)
            ELSE IF app = "windows" /\ query # None /\ startswith(query, "settings")
            THEN fired("open_windows_settings", w, c)
            ELSE IF launch_app(app, env) THEN fired("open_app", w, c)
            ELSE IF contains(full_target, ".")
            THEN IF env.oserr THEN raised_in("open_url", w, c) ELSE fired("open_url", w, c)
            ELSE IF app \in URL_SHORTCUTS
            THEN IF env.oserr THEN raised_in("open_shortcut", w, c)
                 ELSE fired("open_shortcut", w, c)
            ELSE fired("open_not_found", w, c)
        of_parts(parts) == opened(parts[1], IF Len(parts) > 1 THEN parts[2] ELSE None)
    IN  of_parts(split_blanks(lower(full_target)))

\* the ways launch_app(app_name) tries, in order, each with whether it
\* started the application: the shortcut table, the Zoom path, the
\* executable of that name, the store-app lookup.  A way that starts the
\* application returns True and ends the list.  env.ok: the application can
\* be started; env.oserr: the first call that tries raises
launch_ways(w, app_name, env) ==
    LET aliased(name) ==
            CASE name = "zoom workplace" -> "zoom"
              [] name = "zoom meetings" -> "zoom"
              [] name = "windows settings" -> "settings"
              [] OTHER -> name
        name == aliased(strip(lower(app_name)))
        ways == (IF name \in APP_SHORTCUTS THEN <<"launch alias">> ELSE <<>>)
                \o (IF name = "zoom" /\ exists(w, expandvars("%APPDATA%\\Zoom\\bin\\Zoom.exe"))
                    THEN <<"launch zoom">> ELSE <<>>)
                \o <<"launch exe", "launch store">>
    IN  IF ~env.ok THEN [k \in 1..Len(ways) |-> [step |-> ways[k], started |-> FALSE]]
        ELSE IF env.oserr
        THEN <<[step |-> ways[1], started |-> FALSE], [step |-> ways[2], started |-> TRUE]>>
        ELSE <<[step |-> ways[1], started |-> TRUE]>>

\* an "open X" rule that goes on to the URL steps after the launch
open_steps_past_launch(w, full_target, env) ==
    LET one(step, started) == <<[step |-> step, started |-> started]>>
        parts == split_blanks(lower(full_target))
    IN  IF exists(w, full_target) THEN one("path", ~env.oserr)
        ELSE launch_ways(w, parts[1], env)
             \o (IF contains(full_target, ".") THEN one("url", ~env.oserr)
                 ELSE IF parts[1] \in URL_SHORTCUTS THEN one("url shortcut", ~env.oserr)
                 ELSE one("not found", FALSE))

\* the steps the "open X" rule takes for X, in order, each with whether it
\* opened or started something
open_steps(w, full_target, env) ==
    LET one(step, started) == <<[step |-> step, started |-> started]>>
        parts == split_blanks(lower(full_target))
        app == parts[1]
    IN  IF exists(w, full_target) THEN one("path", ~env.oserr)
        ELSE IF exists(w, expandvars(expanduser(full_target)))
        THEN one("expanded path", ~env.oserr)
        ELSE IF app = "windows" /\ Len(parts) > 1 /\ startswith(parts[2], "settings")
        THEN one("windows settings", ~env.oserr)
        ELSE launch_ways(w, app, env)
             \o (IF env.ok THEN <<>>
                 ELSE IF contains(full_target, ".") THEN one("url", ~env.oserr)
                 ELSE IF app \in URL_SHORTCUTS THEN one("url shortcut", ~env.oserr)
                 ELSE one("not found", FALSE))

\* (?:search|google|find)\s+(?:for\s+)?(.+)
web_search_pattern ==
    <<OneOf(<<"search", "google", "find">>), Ws, Opt(<<Lit("for"), Ws>>), Greedy(1)>>

\* (?:open|launch|start|run)\s+(.+)
open_pattern == <<OneOf(<<"open", "launch", "start", "run">>), Ws, Greedy(1)>>

\* the rules after the file rules, keyword rules among them
general_rules(w, c, text, env) ==
    LET url_word(ws) == \E k \in 1..Len(ws) : ws[k] \in URL_SHORTCUTS
        yt == re_search(<<YoutubeVerbs, Ws, Lazy(1)>> \o youtube_suffix, 1, text)
        gs == re_search(web_search_pattern, 1, text)
        om == re_search(open_pattern, 1, text)
        am == re_search(<<OneOf(<<"search", "play", "find">>), Ws, Lazy(1),
                          Alt(<< <<Ws, Lit("on")>>, <<End>> >>)>>, 1, text)
    IN  IF contains(text, "clear") THEN fired("clear", w, c)
        ELSE IF /\ \/ re_fullmatch(<<Opt(<<Lit("open"), Ws>>), Lit("settings")>>, 0, text).ok
                   \/ found(whole_word(<<"config">>), text)
                /\ ~contains(text, "windows")
        THEN fired("config", w, c)
        ELSE IF \/ found(<<WordEnd, Lit("open"), Ws, Lit("windows"), Ws, Lit("settings"),
                           WordEnd>>, text)
                \/ re_fullmatch(<<Lit("windows"), Ws, Lit("settings")>>, 0, text).ok
        THEN fired("windows_settings", w, c)
        ELSE IF contains(text, "copy") THEN fired("copy", w, c)
        ELSE IF yt.ok THEN fired("youtube", w, automate_youtube(c, strip(yt.caps[1]), env))
        ELSE IF /\ contains(text, "youtube") \/ contains(text, " yt")
                /\ re_search(youtube_suffix, 0, text).ok
                /\ youtube_query(text) # ""
        THEN fired("youtube", w, automate_youtube(c, youtube_query(text), env))
        ELSE IF gs.ok
        THEN IF env.oserr THEN raised_in("web_search", w, c) ELSE fired("web_search", w, c)
        ELSE IF /\ ~re_match(<<OneOf(<<"open", "launch", "start", "run">>), Ws>>, 0, text).ok
                /\ url_word(split_blanks(text))
        THEN IF env.oserr THEN raised_in("url_shortcut", w, c)
             ELSE fired("url_shortcut", w, c)
        ELSE IF om.ok THEN open_rule(w, c, strip(om.caps[1]), env)
        ELSE IF contains(text, "cpu") \/ contains(text, "processor") THEN fired("cpu", w, c)
        ELSE IF contains(text, "ram") \/ contains(text, "memory") THEN fired("ram", w, c)
        ELSE IF contains(text, "time") THEN fired("time", w, c)
        ELSE IF contains(text, "date") THEN fired("date", w, c)
        ELSE IF contains(text, "automate") /\ contains(text, "youtube") /\ am.ok
        THEN fired("automate", w, automate_youtube(c, strip(am.caps[1]), env))
        ELSE no_rule(w, c)

\* an instant_execute that tries the follow-up rules whenever the YouTube
\* context is active, fresh or not
instant_execute_when_active(w, c, text, env) ==
    LET or_else(r, rest) == IF r.rule # "none" THEN r ELSE rest
    IN  or_else(IF c.youtube_active THEN youtube_followup(w, c, text, env)
                ELSE no_rule(w, c),
                or_else(window_rules(w, c, text, env),
                        or_else(file_rules(w, c, text, env),
                                general_rules(w, c, text, env))))

\* instant_execute(text): the first rule that claims the text, in the order
\* of the code; ret is the value returned, raised tells that an exception
\* left the method instead
instant_execute(w, c, text, env) ==
    LET or_else(r, rest) == IF r.rule # "none" THEN r ELSE rest
    IN  or_else(IF c.youtube_active /\ c.fresh THEN youtube_followup(w, c, text, env)
                ELSE no_rule(w, c),
                or_else(window_rules(w, c, text, env),
                        or_else(file_rules(w, c, text, env),
                                general_rules(w, c, text, env))))

-----------------------------------------------------------------------------
(* FastComplexHandler *)

\* os.path.splitext(name)[1].lower(): the extension with its dot, "" when
\* the name has no dot after its first character other than leading dots
extension(name) ==
    LET dots == {i \in 1..Len(name) : ch(name, i) = "."}
        last == CHOOSE i \in dots : \A j \in dots : j <= i
    IN  IF dots = {} THEN ""
        ELSE IF \A j \in 1..(last - 1) : ch(name, j) = "." THEN ""
        ELSE lower(SubSeq(name, last, Len(name)))

\* the category folders of organize-downloads and their extensions
folders ==
    << <<"PDFs", {".pdf"}>>,
       <<"Images", {".jpg", ".jpeg", ".png", ".gif", ".bmp"}>>,
       <<"Documents", {".doc", ".docx", ".txt", ".xlsx", ".pptx"}>>,
       <<"Videos", {".mp4", ".avi", ".mkv", ".mov"}>>,
       <<"Archives", {".zip", ".rar", ".7z"}>> >>

\* os.makedirs(path, exist_ok=True) for each category folder, in order:
\* [w, raised]; it raises when the system refuses or the path is a file
RECURSIVE make_folders(_, _, _, _)
make_folders(w, downloads, k, oserr) ==
    IF k > Len(folders) THEN [w |-> w, raised |-> FALSE]
    ELSE LET folder_path == downloads \o BS \o folders[k][1]
             w1 == attempted(w, "os.makedirs", <<folder_path>>)
         IN  IF oserr \/ abspath(folder_path) \in w.files
             THEN [w |-> w1, raised |-> TRUE]
             ELSE make_folders([w1 EXCEPT !.dirs = @ \cup {abspath(folder_path)}],
                               downloads, k + 1, oserr)

\* the category folders whose extension list has ext, in order
folders_of(ext) == SelectSeq(folders, LAMBDA f : ext \in f[2])

\* the files the operating system does not let go of during the call
locked_by(env) == IF "locked" \in DOMAIN env THEN env.locked ELSE {}

\* shutil.move of one listed file into each folder that takes its extension,
\* on st = [w, moved]; moved += 1 after a move that did not raise, a move
\* that raises is passed over
RECURSIVE move_into(_, _, _, _, _)
move_into(st, downloads, file, fs, locked) ==
    IF fs = <<>> THEN st
    ELSE LET tried(dest, w1) ==
                 IF move_raises(st.w, file.path, dest, file.path \in locked)
                 THEN [w |-> w1, moved |-> st.moved]
                 ELSE [w |-> moved(w1, file.path, dest), moved |-> st.moved + 1]
             into(dest) == tried(dest, attempted(st.w, "shutil.move", <<file.path, dest>>))
         IN  move_into(into(downloads \o BS \o Head(fs)[1] \o BS \o file.name),
                       downloads, file, Tail(fs), locked)

\* organize-downloads looking at the extension as it is spelled
organize_files_by_spelling(st, downloads, files, locked) ==
    LET ext_of(name) ==
            IF extension(name) = "" THEN ""
            ELSE SubSeq(name, Len(name) - Len(extension(name)) + 1, Len(name))
        RECURSIVE each(_, _)
        each(s1, rest) ==
            IF rest = <<>> THEN s1
            ELSE each(IF Head(rest).type = "file"
                      THEN move_into(s1, downloads, Head(rest),
                                     folders_of(ext_of(Head(rest).name)), locked)
                      ELSE s1, Tail(rest))
    IN  each(st, files)

RECURSIVE organize_files(_, _, _, _)
organize_files(st, downloads, files, locked) ==
    IF files = <<>> THEN st
    ELSE LET sorted_out(file) ==
                 IF file.type = "file"
                 THEN move_into(st, downloads, file, folders_of(extension(file.name)), locked)
                 ELSE st
         IN  organize_files(sorted_out(Head(files)), downloads, Tail(files), locked)

\* what a pattern of handle gives: reported is the count in the closing
\* message of organize-downloads, -1 when there is no such message
handled(ret, pattern, w, c) ==
    [ret |-> ret, pattern |-> pattern, w |-> w, c |-> c, reported |-> -1]

\* _organize_downloads: True, or None when the listing fails or a folder
\* cannot be made
_organize_downloads(w, c, env) ==
    LET sorted(done) == [handled(True, "organize", done.w, c) EXCEPT !.reported = done.moved]
        made_in(downloads, r, made) ==
            IF made.raised THEN handled(None, "organize", made.w, c)
            ELSE sorted(organize_files([w |-> made.w, moved |-> 0], downloads, r.ret,
                                       locked_by(env)))
        organized(downloads, r) ==
            IF ~listing_ok(r.ret) THEN handled(None, "organize", r.w, c)
            ELSE made_in(downloads, r, make_folders(r.w, downloads, 1, env.oserr))
        in_folder(downloads) == organized(downloads, list_files(w, downloads))
    IN  in_folder(expanduser("~/Downloads"))

\* _list_files_in_notepad
_list_files_in_notepad(w, c, env) ==
    LET written(r) ==
            IF ~listing_ok(r.ret) THEN handled(None, "list_in_notepad", r.w, c)
            ELSE IF env.oserr THEN handled(None, "list_in_notepad", r.w, c)
            ELSE handled(True, "list_in_notepad", r.w, c)
    IN  written(list_files(w, expanduser("~/Downloads")))

\* file_mgr.move_file for each of the files, in order
RECURSIVE move_each(_, _, _, _)
move_each(w, files, dest_path, oserr) ==
    IF files = <<>> THEN w
    ELSE move_each(move_file(w, Head(files).path, dest_path, oserr).w,
                   Tail(files), dest_path, oserr)

dest_map ==
    [desktop |-> "~/Desktop", documents |-> "~/Documents", downloads |-> "~/Downloads"]

\* _find_and_move going through every result of the search
_find_and_move_every_result(w, c, file_type, destination, env) ==
    LET dest_path == IF destination \in DOMAIN dest_map
                     THEN expanduser(dest_map[destination]) ELSE destination
        moved_all(r) ==
            IF ~listing_ok(r.ret) THEN handled(True, "find_and_move", r.w, c)
            ELSE handled(True, "find_and_move",
                         move_each(r.w, r.ret, dest_path, env.oserr), c)
    IN  moved_all(search_files(w, file_type, None))

\* _find_and_move(file_type, destination): at most the first 10 results
_find_and_move(w, c, file_type, destination, env) ==
    LET dest_path == IF destination \in DOMAIN dest_map
                     THEN expanduser(dest_map[destination]) ELSE destination
        moved_all(r) ==
            IF ~listing_ok(r.ret) THEN handled(True, "find_and_move", r.w, c)
            ELSE handled(True, "find_and_move",
                         move_each(r.w, SubSeq(r.ret, 1, Min(10, Len(r.ret))), dest_path,
                                   env.oserr), c)
    IN  moved_all(search_files(w, file_type, None))

\* the patterns of handle tried in order on text_lower = text.lower().strip()
handle_lower(w, c, text_lower, env) ==
    LET fm == re_search(<<Lit("find"), Ws, Opt(<<Lit("all"), Ws>>), Lazy(1), Ws,
                          Opt(<<Lit("and"), Ws>>), Lit("move"), AnyLazy,
                          Opt(<<Lit("to"), Ws>>), Word(2)>>, 2, text_lower)
    IN  IF found(<<OneOf(<<"make", "create", "write">>), Ws, Opt(<<Lit("a"), Ws>>),
                   Lit("list"), AnyGreedy, OneOf(<<"file", "download">>), AnyGreedy,
                   Lit("notepad")>>, text_lower)
        THEN _list_files_in_notepad(w, c, env)
        ELSE IF found(<<Lit("organize"), AnyGreedy, Lit("download")>>, text_lower)
        THEN _organize_downloads(w, c, env)
        ELSE IF fm.ok THEN _find_and_move(w, c, fm.caps[1], fm.caps[2], env)
        ELSE IF found(<<Lit("open"), Ws, Word(1), AnyGreedy, Lit("search"), Ws, Greedy(2)>>,
                      text_lower)
        THEN handled(True, "open_and_search", w, c)
        ELSE handled(False, "none", w, c)

\* FastComplexHandler.handle(text): ret is True (handled), False (not
\* recognized) or None (recognized, failed)
handle(w, c, text, env) == handle_lower(w, c, strip(lower(text)), env)

-----------------------------------------------------------------------------
(* SmartTemplateMatcher.execute for the actions that call nothing back *)

\* Python truth of a handler's return value: True, not False or None
truthy(ret) == ret = True

\* execute(action, params) for every action but chain_execution and
\* open_and_do: ret is what execute returns, handler tells whether execute
\* has a branch for the action
execute(w, c, action, params, env) ==
    LET passed_on(h) == [ret |-> h.ret, handler |-> TRUE, w |-> h.w, c |-> h.c]
    IN
    CASE action = "list_files" ->
            LET listed(r) ==
                    [ret |-> python_bool(listing_ok(r.ret)), handler |-> TRUE, w |-> r.w,
                     c |-> c]
                in_location(location) ==
                    listed(list_files(w, IF location = None THEN None
                                         ELSE expanduser(location)))
            IN  in_location(arg(params, "location", None))
      [] action = "search_files" ->
            LET searched(r) ==
                    [ret |-> python_bool(listing_ok(r.ret)), handler |-> TRUE, w |-> r.w,
                     c |-> c]
            IN  searched(search_files(w, arg(params, "file_type", None),
                                      arg(params, "location", None)))
      [] action = "organize" ->
            IF contains(lower(arg(params, "location", None)), "download")
            THEN passed_on(handle(w, c, "organize downloads", env))
            ELSE [ret |-> False, handler |-> TRUE, w |-> w, c |-> c]
      [] action = "make_list" ->
            IF /\ contains(arg(params, "content", None), "download")
               /\ contains(arg(params, "app", None), "notepad")
            THEN passed_on(handle(w, c, "make a list of downloaded files in notepad", env))
            ELSE [ret |-> False, handler |-> TRUE, w |-> w, c |-> c]
      [] action = "list_to_app" ->
            IF /\ contains(arg(params, "what", None), "file")
               /\ contains(arg(params, "where", None), "notepad")
            THEN passed_on(handle(w, c, "make a list of files in notepad", env))
            ELSE [ret |-> False, handler |-> TRUE, w |-> w, c |-> c]
      [] action = "search_in_app" ->
            IF \/ contains(arg(params, "app", None), "chrome")
               \/ contains(arg(params, "app", None), "browser")
            THEN [ret |-> python_bool(~env.oserr), handler |-> TRUE, w |-> w, c |-> c]
            ELSE [ret |-> False, handler |-> TRUE, w |-> w, c |-> c]
      [] OTHER -> [ret |-> False, handler |-> FALSE, w |-> w, c |-> c]

-----------------------------------------------------------------------------
(* json.loads, for texts without escapes and exponents.  A value is a       *)
(* record tagged by its Python type: list, dict, str, int, float, bool or   *)
(* NoneType.                                                                 *)

QUOTE == "\""

Digits09 == "0123456789"

is_digit(c) == \E k \in 1..10 : ch(Digits09, k) = c

\* the decoder's whitespace run from position i on: the position after it
RECURSIVE skip_ws(_, _)
skip_ws(s, i) ==
    IF i <= Len(s) /\ ch(s, i) \in {" ", "\t", "\n", "\r"} THEN skip_ws(s, i + 1) ELSE i

\* a decoding step: the value and the position after it, or failure
decoded(v, i) == [ok |-> TRUE, v |-> v, i |-> i]

Undecodable == [ok |-> FALSE, v |-> [t |-> "none"], i |-> 0]

at(s, i, word) == SubSeq(s, i, Min(Len(s), i + Len(word) - 1)) = word

\* the position of the first quote from j on, 0 when there is none; the
\* text is searched sixteen characters at a time
RECURSIVE next_quote(_, _)
next_quote(s, j) ==
    LET quotes == {k \in j..Min(Len(s), j + 15) : ch(s, k) = QUOTE}
    IN  IF j > Len(s) THEN 0
        ELSE IF quotes = {} THEN next_quote(s, j + 16)
        ELSE CHOOSE k \in quotes : \A other \in quotes : k <= other

\* a string from its opening quote at i: up to the next quote
scan_string(s, i) ==
    LET closed(j) ==
            IF j = 0 THEN Undecodable
            ELSE decoded([t |-> "str", s |-> SubSeq(s, i + 1, j - 1)], j + 1)
    IN  closed(next_quote(s, i + 1))

\* the end of the digit run that starts at i
RECURSIVE digits_end(_, _)
digits_end(s, i) == IF i <= Len(s) /\ is_digit(ch(s, i)) THEN digits_end(s, i + 1) ELSE i

\* -?(?:0|[1-9]\d*)(\.\d+)? at i: an int, or a float when a fraction follows
scan_number(s, i) ==
    LET number(e) ==
            IF e < Len(s) /\ ch(s, e) = "." /\ is_digit(ch(s, e + 1))
            THEN decoded([t |-> "float", s |-> SubSeq(s, i, digits_end(s, e + 1) - 1)],
                         digits_end(s, e + 1))
            ELSE decoded([t |-> "int", s |-> SubSeq(s, i, e - 1)], e)
        from(j) ==
            IF j > Len(s) \/ ~is_digit(ch(s, j)) THEN Undecodable
            ELSE IF ch(s, j) = "0" THEN number(j + 1)
            ELSE number(digits_end(s, j))
    IN  from(IF ch(s, i) = "-" THEN i + 1 ELSE i)

RECURSIVE scan_value(_, _)
RECURSIVE scan_items(_, _, _)
RECURSIVE scan_turns(_, _, _)
RECURSIVE scan_members(_, _, _, _)

\* one turn of JSONArray's loop: a value, then "," (go on) or "]" (done)
scan_item(s, st) ==
    IF st.done THEN st
    ELSE LET r == scan_value(s, st.i)
             j == IF r.ok THEN skip_ws(s, r.i) ELSE 0
         IN  IF ~r.ok \/ j > Len(s) THEN [done |-> TRUE, ok |-> FALSE, i |-> 0, acc |-> <<>>]
             ELSE IF ch(s, j) = ","
                  THEN [done |-> FALSE, ok |-> TRUE, i |-> skip_ws(s, j + 1),
                        acc |-> Append(st.acc, r.v)]
             ELSE IF ch(s, j) = "]"
                  THEN [done |-> TRUE, ok |-> TRUE, i |-> j + 1, acc |-> Append(st.acc, r.v)]
             ELSE [done |-> TRUE, ok |-> FALSE, i |-> 0, acc |-> <<>>]

\* n turns of the loop, one after the other: the first half is computed to
\* its end before the second half starts; a turn after the end changes nothing
scan_turns(s, st, n) ==
    IF n = 1 THEN scan_item(s, st)
    ELSE CHOOSE last \in {scan_turns(s, half, n - n \div 2) :
                              half \in {scan_turns(s, st, n \div 2)}} : TRUE

\* JSONArray after the first value position: value (, value)* ]
scan_items(s, i, acc) ==
    LET run(st) ==
            IF ~st.done THEN scan_items(s, st.i, st.acc)
            ELSE IF st.ok THEN decoded([t |-> "list", items |-> st.acc], st.i)
            ELSE Undecodable
    IN  run(scan_turns(s, [done |-> FALSE, ok |-> TRUE, i |-> i, acc |-> acc], 64))

\* JSONObject at a key's opening quote: "key" : value (, "key" : value)* }
scan_members(s, i, keys, vals) ==
    LET after(k, r, j) ==
            IF ~r.ok \/ j > Len(s) THEN Undecodable
            ELSE IF ch(s, j) = ","
                 THEN scan_members(s, skip_ws(s, j + 1), Append(keys, k.v.s), Append(vals, r.v))
            ELSE IF ch(s, j) = "}"
                 THEN decoded([t |-> "dict", keys |-> Append(keys, k.v.s),
                               vals |-> Append(vals, r.v)], j + 1)
            ELSE Undecodable
        valued(k, r) == after(k, r, IF r.ok THEN skip_ws(s, r.i) ELSE 0)
        colon(k, j) ==
            IF j > Len(s) \/ ch(s, j) # ":" THEN Undecodable
            ELSE valued(k, scan_value(s, skip_ws(s, j + 1)))
        keyed(k) == IF ~k.ok THEN Undecodable ELSE colon(k, skip_ws(s, k.i))
    IN  IF i > Len(s) \/ ch(s, i) # QUOTE THEN Undecodable ELSE keyed(scan_string(s, i))

\* scanner.scan_once at i
scan_value(s, i) ==
    LET opened(close, j, empty) ==
            IF j <= Len(s) /\ ch(s, j) = close THEN decoded(empty, j + 1)
            ELSE IF close = "]" THEN scan_items(s, j, <<>>)
            ELSE scan_members(s, j, <<>>, <<>>)
    IN  IF i > Len(s) THEN Undecodable
        ELSE IF ch(s, i) = QUOTE THEN scan_string(s, i)
        ELSE IF ch(s, i) = "[" THEN opened("]", skip_ws(s, i + 1), [t |-> "list", items |-> <<>>])
        ELSE IF ch(s, i) = "{"
             THEN opened("}", skip_ws(s, i + 1), [t |-> "dict", keys |-> <<>>, vals |-> <<>>])
        ELSE IF at(s, i, "null") THEN decoded([t |-> "NoneType"], i + 4)
        ELSE IF at(s, i, "true") THEN decoded([t |-> "bool", b |-> TRUE], i + 4)
        ELSE IF at(s, i, "false") THEN decoded([t |-> "bool", b |-> FALSE], i + 5)
        ELSE IF ch(s, i) = "-" \/ is_digit(ch(s, i)) THEN scan_number(s, i)
        ELSE Undecodable

\* json.loads(s): [raised, v]; extra data after the value raises
json_loads(s) ==
    LET whole(r) ==
            IF r.ok /\ skip_ws(s, r.i) > Len(s) THEN [raised |-> FALSE, v |-> r.v]
            ELSE [raised |-> TRUE, v |-> [t |-> "none"]]
    IN  whole(scan_value(s, skip_ws(s, 1)))

-----------------------------------------------------------------------------
(* LLMController *)

\* index of the last occurrence of the character c in s, or 0
last_index(s, c) ==
    LET hits == {i \in 1..Len(s) : ch(s, i) = c}
    IN  IF hits = {} THEN 0 ELSE CHOOSE i \in hits : \A j \in hits : j <= i

\* index of the first occurrence of sub in s, or 0
find(s, sub) ==
    LET hits == {i \in 1..(Len(s) - Len(sub) + 1) : SubSeq(s, i, i + Len(sub) - 1) = sub}
    IN  IF hits = {} THEN 0 ELSE CHOOSE i \in hits : \A j \in hits : i <= j

\* the Markdown fence, three backquotes in the program, written with three
\* tildes here
FENCE == "~~~"

\* output.split(opening)[1].split(FENCE)[0]: what follows the first opening
\* up to the next fence
fenced(output, opening) ==
    LET upto(rest, k) == IF k = 0 THEN rest ELSE SubSeq(rest, 1, k - 1)
        inside(rest) == upto(rest, find(rest, FENCE))
    IN  inside(SubSeq(output, find(output, opening) + Len(opening), Len(output)))

\* text[start:end] with start = text.find('[') and end = text.rfind(']') + 1,
\* taken when start >= 0 and end > 0
bracketed(text) ==
    IF first_index(text, "[") >= 1 /\ last_index(text, "]") >= 1
    THEN SubSeq(text, first_index(text, "["), last_index(text, "]"))
    ELSE text

\* the clean-up of the model's output before it is parsed
cleaned(output) ==
    LET unfenced(o) ==
            IF contains(o, FENCE \o "json") THEN strip(fenced(o, FENCE \o "json"))
            ELSE IF contains(o, FENCE) THEN strip(fenced(o, FENCE))
            ELSE o
        array_of(o) == IF startswith(o, "[") THEN o ELSE bracketed(o)
    IN  array_of(unfenced(output))

\* _parse_json(text): the decoded value, or None when json.loads raises
_parse_json(text) ==
    LET caught(r) == IF r.raised THEN [none |-> TRUE, v |-> r.v] ELSE [none |-> FALSE, v |-> r.v]
    IN  caught(json_loads(bracketed(text)))

\* what the model file and the llama runtime do in one call: found, the
\* model file exists; loads, Llama(...) constructs; infers, the inference
\* call returns a well-formed response
LlmEnvs ==
    { [found |-> TRUE,  loads |-> TRUE,  infers |-> TRUE],
      [found |-> FALSE, loads |-> TRUE,  infers |-> TRUE],
      [found |-> TRUE,  loads |-> FALSE, infers |-> TRUE],
      [found |-> TRUE,  loads |-> TRUE,  infers |-> FALSE] }

\* load_model(): False when the file is missing or Llama(...) raised (with
\* and, after the retry, without GPU layers)
load_model(env) == env.found /\ env.loads

NoPlan == [none |-> TRUE, v |-> [t |-> "none"]]

\* parse_ambiguous_command(command, context) when the model answers with
\* the text response: [raised, none, v]
parse_ambiguous_command(env, response) ==
    LET returning(r) == [raised |-> FALSE, none |-> r.none, v |-> r.v]
    IN  IF ~load_model(env) THEN returning(NoPlan)
        ELSE IF ~env.infers THEN returning(NoPlan)
        ELSE returning(_parse_json(cleaned(strip(response))))

-----------------------------------------------------------------------------
(* ContextManager: each method maps the object's fields to the fields after  *)
(* the call; t is what time.time() returns during the call                   *)

\* ContextManager.__init__
NewContext ==
    [current_app |-> None, last_command |-> None, last_command_time |-> 0,
     youtube_active |-> FALSE, youtube_videos |-> <<>>, youtube_current_index |-> -1,
     notepad_active |-> FALSE, notepad_handle |-> None, notepad_process |-> None,
     browser_active |-> FALSE, browser |-> None, browser_current_url |-> None,
     file_explorer_active |-> FALSE, current_directory |-> None, current_files |-> <<>>,
     command_history |-> <<>>]

max_history == 10

DEFAULT_MAX_AGE == 300

\* kwargs[key] if the keyword was passed, else the field as it is
passed(kwargs, key, old) == IF key \in DOMAIN kwargs THEN kwargs[key] ELSE old

\* set_context whose browser branch leaves youtube_active as it is
set_context_browser_keeps_youtube(c, app, kwargs) ==
    LET named == [c EXCEPT !.current_app = app]
    IN  CASE app = "youtube" ->
               [named EXCEPT !.youtube_active = TRUE, !.browser_active = FALSE,
                             !.youtube_videos = passed(kwargs, "videos", @),
                             !.browser = passed(kwargs, "browser", @)]
          [] app = "browser" ->
               [named EXCEPT !.browser_active = TRUE,
                             !.browser = passed(kwargs, "browser", @),
                             !.browser_current_url = passed(kwargs, "url", @)]
          [] OTHER -> named

set_context(c, app, kwargs) ==
    LET named == [c EXCEPT !.current_app = app]
    IN  CASE app = "youtube" ->
               [named EXCEPT !.youtube_active = TRUE,
                             !.browser_active = FALSE,
                             !.youtube_videos = passed(kwargs, "videos", @),
                             !.browser = passed(kwargs, "browser", @)]
          [] app = "notepad" ->
               [named EXCEPT !.notepad_active = TRUE,
                             !.notepad_handle = passed(kwargs, "handle", @),
                             !.notepad_process = passed(kwargs, "process", @)]
          [] app = "browser" ->
               [named EXCEPT !.browser_active = TRUE,
                             !.youtube_active = FALSE,
                             !.browser = passed(kwargs, "browser", @),
                             !.browser_current_url = passed(kwargs, "url", @)]
          [] app = "file_explorer" ->
               [named EXCEPT !.file_explorer_active = TRUE,
                             !.current_directory = passed(kwargs, "directory", @),
                             !.current_files = passed(kwargs, "files", @)]
          [] OTHER -> named

\* clear_context(app); app is None for all
clear_context(c, app) ==
    LET youtube(x) ==
            IF app \in {None, "youtube"}
            THEN [x EXCEPT !.youtube_active = FALSE, !.youtube_videos = <<>>,
                           !.youtube_current_index = -1]
            ELSE x
        notepad(x) ==
            IF app \in {None, "notepad"}
            THEN [x EXCEPT !.notepad_active = FALSE, !.notepad_handle = None,
                           !.notepad_process = None]
            ELSE x
        browsing(x) ==
            IF app \in {None, "browser"}
            THEN [x EXCEPT !.browser_active = FALSE, !.browser_current_url = None]
            ELSE x
        file_explorer(x) ==
            IF app \in {None, "file_explorer"}
            THEN [x EXCEPT !.file_explorer_active = FALSE, !.current_directory = None,
                           !.current_files = <<>>]
            ELSE x
        all(x) == IF app = None THEN [x EXCEPT !.current_app = None, !.browser = None] ELSE x
    IN  all(file_explorer(browsing(notepad(youtube(c)))))

\* add_command that drops the entry just added when the history is full
add_command_evicts_newest(c, command, result, context, t) ==
    LET entry == [command |-> command, result |-> result,
                  context |-> IF context \notin {None, ""} THEN context ELSE c.current_app,
                  timestamp |-> t]
        kept(h) == IF Len(h) > max_history THEN SubSeq(h, 1, Len(h) - 1) ELSE h
    IN  [c EXCEPT !.command_history = kept(Append(@, entry)),
                  !.last_command = command,
                  !.last_command_time = t]

\* add_command(command, result, context) at time t
add_command(c, command, result, context, t) ==
    LET entry == [command |-> command, result |-> result,
                  context |-> IF context \notin {None, ""} THEN context ELSE c.current_app,
                  timestamp |-> t]
        kept(h) == IF Len(h) > max_history THEN Tail(h) ELSE h
    IN  [c EXCEPT !.command_history = kept(Append(@, entry)),
                  !.last_command = command,
                  !.last_command_time = t]

\* is_context_fresh with a window that includes its end
is_context_fresh_inclusive(c, max_age_seconds, t) ==
    IF c.last_command_time = 0 THEN FALSE
    ELSE (t - c.last_command_time) <= max_age_seconds

\* is_context_fresh(max_age_seconds) at time t
is_context_fresh(c, max_age_seconds, t) ==
    IF c.last_command_time = 0 THEN FALSE
    ELSE (t - c.last_command_time) < max_age_seconds

-----------------------------------------------------------------------------
(* json.dumps, for the values the memory file holds, and the Python value   *)
(* of a decoded document                                                     *)

\* the text of a non-negative int
int_text(n) == ToString(n)

\* float.__repr__ of a whole number of seconds
float_text(n) == ToString(n) \o ".0"

j_str(s) == [t |-> "str", s |-> s]
j_int(n) == [t |-> "int", s |-> int_text(n)]
j_float(n) == [t |-> "float", s |-> float_text(n)]
j_bool(b) == [t |-> "bool", b |-> b]
j_none == [t |-> "NoneType"]
j_list(items) == [t |-> "list", items |-> items]
j_dict(keys, vals) == [t |-> "dict", keys |-> keys, vals |-> vals]

\* ', '.join(parts), by halves
RECURSIVE joined(_)
joined(parts) ==
    IF Len(parts) = 0 THEN ""
    ELSE IF Len(parts) = 1 THEN parts[1]
    ELSE joined(SubSeq(parts, 1, Len(parts) \div 2)) \o ", "
         \o joined(SubSeq(parts, Len(parts) \div 2 + 1, Len(parts)))

\* json.dumps(v); the indentation json.dump(..., indent=2) adds is
\* whitespace between tokens and is left out
RECURSIVE json_dumps(_)
json_dumps(v) ==
    CASE v.t = "str" -> QUOTE \o v.s \o QUOTE
      [] v.t \in {"int", "float"} -> v.s
      [] v.t = "bool" -> IF v.b THEN "true" ELSE "false"
      [] v.t = "NoneType" -> "null"
      [] v.t = "list" ->
            "[" \o joined([k \in 1..Len(v.items) |-> json_dumps(v.items[k])]) \o "]"
      [] v.t = "dict" ->
            "{" \o joined([k \in 1..Len(v.keys) |->
                              QUOTE \o v.keys[k] \o QUOTE \o ": " \o json_dumps(v.vals[k])])
                \o "}"

\* the Python value of a decoded JSON value: a dict is a function of its
\* keys, the last of two equal keys winning; a float with a zero fraction
\* equals the int
RECURSIVE python_value(_)
python_value(v) ==
    CASE v.t = "str" -> v.s
      [] v.t = "int" -> int_of(v.s)
      [] v.t = "float" -> int_of(SubSeq(v.s, 1, first_index(v.s, ".") - 1))
      [] v.t = "bool" -> v.b
      [] v.t = "NoneType" -> None
      [] v.t = "list" -> [k \in 1..Len(v.items) |-> python_value(v.items[k])]
      [] v.t = "dict" ->
            LET last(key) == CHOOSE k \in 1..Len(v.keys) :
                                 /\ v.keys[k] = key
                                 /\ \A j \in (k + 1)..Len(v.keys) : v.keys[j] # key
            IN  [key \in {v.keys[k] : k \in 1..Len(v.keys)} |-> python_value(v.vals[last(key)])]

-----------------------------------------------------------------------------
(* AgentMemory *)

\* a plan or None, as remember_command's actions argument is
Absent == [none |-> TRUE, v |-> <<>>]

given(list) == [none |-> FALSE, v |-> list]

\* the Python value of a decoded memory file: the actions of the items of
\* success_patterns, a list or None, become given(list) or Absent
memory_value(v) ==
    LET last(w, key) == CHOOSE k \in 1..Len(w.keys) :
                            /\ w.keys[k] = key
                            /\ \A j \in (k + 1)..Len(w.keys) : w.keys[j] # key
        item(w) ==
            IF w.t # "dict" THEN python_value(w)
            ELSE LET it == python_value(w)
                 IN  IF "actions" \notin DOMAIN it THEN it
                     ELSE [it EXCEPT !["actions"] =
                              IF w.vals[last(w, "actions")].t = "NoneType" THEN Absent
                              ELSE given(@)]
        items(w) ==
            IF w.t # "list" THEN python_value(w)
            ELSE [k \in 1..Len(w.items) |-> item(w.items[k])]
        patterns(w) ==
            IF w.t # "dict" THEN python_value(w)
            ELSE [c \in {w.keys[k] : k \in 1..Len(w.keys)} |-> items(w.vals[last(w, c)])]
        data == python_value([v EXCEPT !.vals = [k \in 1..Len(v.keys) |->
                                 IF v.keys[k] = "success_patterns" THEN j_none
                                 ELSE v.vals[k]]])
    IN  IF "success_patterns" \notin DOMAIN data THEN data
        ELSE [data EXCEPT !["success_patterns"] =
                 patterns(v.vals[last(v, "success_patterns")])]

\* {} and the dict d with d[key] = value
EmptyDict == [key \in {} |-> None]

with_item(d, key, value) ==
    [k \in DOMAIN d \cup {key} |-> IF k = key THEN value ELSE d[k]]

\* d.get(key, default)
get(d, key, default) == IF key \in DOMAIN d THEN d[key] ELSE default

\* the fields of a new object before load_memory runs
NewMemory ==
    [command_history |-> <<>>, success_patterns |-> EmptyDict,
     failure_patterns |-> EmptyDict, user_preferences |-> EmptyDict,
     app_usage |-> EmptyDict]

\* the number of history entries save_memory writes and load_memory keeps
Kept == 100

\* seq[-n:]
last_items(seq, n) == SubSeq(seq, Max(1, Len(seq) - n + 1), Len(seq))

\* s[:n]
first_chars(s, n) == SubSeq(s, 1, Min(n, Len(s)))

\* the words remember_command counts as applications
CountedApps ==
    {"chrome", "notepad", "calculator", "vscode", "spotify", "excel", "word", "outlook",
     "teams"}

\* a plan as json.dump sees it: a list of {action, params} objects with
\* string parameters
j_plan(actions) ==
    j_list([k \in 1..Len(actions) |->
               j_dict(<<"action", "params">>,
                      <<j_str(actions[k].action),
                        LET names == as_sequence(DOMAIN actions[k].params)
                        IN  j_dict(names, [n \in 1..Len(names) |->
                                              j_str(actions[k].params[names[n]])])>>)])

j_entry(e) ==
    j_dict(<<"command", "success", "timestamp", "execution_time", "result", "actions">>,
           <<j_str(e.command), j_bool(e.success), j_float(e.timestamp),
             j_float(e.execution_time), j_str(e.result), j_plan(e.actions)>>)

j_success(p) ==
    j_dict(<<"time", "execution_time", "actions">>,
           <<j_float(p.time), j_float(p.execution_time),
             IF p.actions.none THEN j_none ELSE j_plan(p.actions.v)>>)

j_failure(p) == j_dict(<<"time", "result">>, <<j_float(p.time), j_str(p.result)>>)

\* a dict of lists, each list's items encoded by item
j_patterns(d, item(_)) ==
    LET names == as_sequence(DOMAIN d)
    IN  j_dict(names, [n \in 1..Len(names) |->
                          j_list([k \in 1..Len(d[names[n]]) |-> item(d[names[n]][k])])])

\* a dict of values of one kind
j_flat(d, value(_)) ==
    LET names == as_sequence(DOMAIN d)
    IN  j_dict(names, [n \in 1..Len(names) |-> value(d[names[n]])])

\* the dict save_memory builds; last_updated is the time of the save
document(m, t) ==
    j_dict(<<"command_history", "success_patterns", "failure_patterns", "user_preferences",
             "app_usage", "last_updated">>,
           <<j_list([k \in 1..Len(last_items(m.command_history, Kept)) |->
                        j_entry(last_items(m.command_history, Kept)[k])]),
             j_patterns(m.success_patterns, j_success),
             j_patterns(m.failure_patterns, j_failure),
             j_flat(m.user_preferences, j_str),
             j_flat(m.app_usage, j_int),
             j_str(int_text(t))>>)

\* a save_memory that leaves the usage counts out of the document
save_memory_without_usage(m, file, t, oserr) ==
    IF oserr THEN file ELSE json_dumps(document([m EXCEPT !.app_usage = EmptyDict], t))

\* save_memory(): the text of the memory file afterwards; a failure to
\* open the file is printed and leaves the file as it is
save_memory(m, file, t, oserr) == IF oserr THEN file ELSE json_dumps(document(m, t))

\* load_memory(): the object afterwards.  No file leaves it as it is, and so
\* does a file that does not decode to a dict, by the except
load_memory(m, file) ==
    LET loaded(data) ==
            [command_history |-> last_items(get(data, "command_history", <<>>), Kept),
             success_patterns |-> get(data, "success_patterns", EmptyDict),
             failure_patterns |-> get(data, "failure_patterns", EmptyDict),
             user_preferences |-> get(data, "user_preferences", EmptyDict),
             app_usage |-> get(data, "app_usage", EmptyDict)]
        read(r) ==
            IF r.raised \/ r.v.t # "dict" THEN m ELSE loaded(memory_value(r.v))
    IN  IF file = None THEN m ELSE read(json_loads(file))

\* app_usage after the words of command.lower().split() are counted
RECURSIVE counted(_, _)
counted(usage, ws) ==
    IF ws = <<>> THEN usage
    ELSE IF Head(ws) \in CountedApps
         THEN counted(with_item(usage, Head(ws), get(usage, Head(ws), 0) + 1), Tail(ws))
    ELSE counted(usage, Tail(ws))

\* the first part of remember_command: the entry appended to the history
\* and the success or failure item appended to the command's list
appended(m, command, success, execution_time, result, actions, t) ==
    LET entry == [command |-> command, success |-> success, timestamp |-> t,
                  execution_time |-> execution_time, result |-> first_chars(result, 200),
                  actions |-> IF actions.none THEN <<>> ELSE actions.v]
        worked == [time |-> t, execution_time |-> execution_time, actions |-> actions]
        failed == [time |-> t, result |-> first_chars(result, 100)]
    IN  [m EXCEPT
            !.command_history = Append(@, entry),
            !.success_patterns =
                IF success THEN with_item(@, command, Append(get(@, command, <<>>), worked))
                ELSE @,
            !.failure_patterns =
                IF success THEN @
                ELSE with_item(@, command, Append(get(@, command, <<>>), failed))]

\* what remember_command does to the object before its auto-save
remembered(m, command, success, execution_time, result, actions, t) ==
    [appended(m, command, success, execution_time, result, actions, t) EXCEPT
        !.app_usage = counted(@, split_blanks(lower(command)))]

\* remember_command(command, success, execution_time, result, actions) at
\* time t: the object and the memory file afterwards
remember_command(m, file, command, success, execution_time, result, actions, t, oserr) ==
    LET after(m1) ==
            [mem |-> m1,
             disk |-> IF Len(m1.command_history) % 10 = 0
                      THEN save_memory(m1, file, t, oserr) ELSE file]
    IN  after(remembered(m, command, success, execution_time, result, actions, t))

\* learn_preference(category, value)
learn_preference(m, file, category, value, t, oserr) ==
    LET after(m1) == [mem |-> m1, disk |-> save_memory(m1, file, t, oserr)]
    IN  after([m EXCEPT !.user_preferences = with_item(@, category, value)])

-----------------------------------------------------------------------------
(* Inputs of the SafetyGuard specification *)

\* the filesystem every specification starts from
InitialWorld ==
    [files       |-> {"C:\\work\\a.txt", "C:\\Windows\\a.txt",
                      "C:\\Users\\me\\Downloads\\a.PDF",
                      "C:\\Users\\me\\Downloads\\notes", "C:\\work\\time\\log.txt"},
     dirs        |-> {"C:\\work", "C:\\work\\sub", "C:\\work\\time", "C:\\Windows",
                      "C:\\Users\\me", "C:\\Users\\me\\Downloads",
                      "C:\\Users\\me\\Downloads\\old"},
     fsCalls     |-> <<>>,
     action_log  |-> <<>>,
     validations |-> <<>>,
     current_directory |-> "C:\\Users\\me"]

MaxSegs == 3

Operations == {"list", "copy", "move", "rename", "delete", "search"}

\* <<working directory, USERPROFILE>> of the process
Environments == {<<"C:\\work", "C:\\Users\\me">>, <<"C:\\", "">>}

SegNames == {"Windows", "windows", "ProgramData", "foo", ".."}

Drives == {"C:", "c:", "D:", ""}

Separators == {BS, "/"}

SegSeqs == UNION {[1..n -> SegNames] : n \in 0..MaxSegs}

\* drive, separator, segments: "C:\Windows\foo", "c:/windows", "..\foo", ...
mk_path(drive, sep, segs) ==
    IF drive = "" THEN join(segs, sep) ELSE drive \o sep \o join(segs, sep)

TreePaths == {mk_path(d, sep, segs) : d \in Drives, sep \in Separators, segs \in SegSeqs}

\* paths in and around the user profile's trees, and a few spellings the
\* segment alphabet above does not produce
ExtraPaths ==
    { "C:\\Users\\me\\Documents\\foo.txt",
      "C:\\Users\\me\\AppData\\Roaming\\Microsoft",
      "C:\\Users\\me\\AppData\\Roaming\\Microsoft\\foo",
      "C:\\Users\\me\\AppData\\Local\\Microsoft\\foo",
      "C:\\Users\\me\\AppData\\Local\\foo",
      "C:\\Program Files\\foo",
      "C:\\ProgramData\\Microsoft",
      "C:\\ProgramData\\Microsoft\\foo",
      "c:\\programdata\\microsoft\\foo",
      "C:\\Program Files (x86)\\foo",
      "C:\\Program Files (x86)",
      "c:\\program files",
      "C:\\System32\\foo",
      "C:\\$Recycle.Bin",
      "C:\\WindowsOld",
      "C:\\Windows\\",
      "c:\\windows\\",
      "C:\\my windows" }

PathInputs == TreePaths \cup ExtraPaths

NoVerdict == <<None, "">>

GuardIdle == gOp = None /\ gPath = "" /\ gVerdict = NoVerdict /\ gPc = "idle"

WorldIdle == world = InitialWorld

FileIdle == fCall = <<>> /\ fResult = <<>> /\ fBefore = InitialWorld /\ fN = 0

PlanIdle ==
    /\ plan = <<>> /\ pStep = 0 /\ results = <<>> /\ pKinds = <<>>
    /\ pRet = None /\ pPc = "idle"

MatchIdle == mCommand = "" /\ mResult = NoTemplate /\ mPc = "idle"

RouteIdle ==
    /\ stack = <<>> /\ log = <<>> /\ history = <<>> /\ nextId = 0
    /\ crashed = FALSE /\ ctx = InitialContext

LlmIdle == lEnv = None /\ lResponse = "" /\ lResult = None /\ lPc = "idle"

ContextIdle == cm = NewContext /\ now = 0 /\ lastHandled = 0

HandleIdle ==
    /\ hText = "" /\ hEnv = None /\ hResult = None /\ hBefore = InitialWorld
    /\ hPc = "idle" /\ hReported = -1

RingIdle == added = <<>>

MemoryIdle == mem = None /\ disk = None /\ calls = <<>>

WorkersIdle == wk = <<>>

SessionIdle == browser = 0 /\ sessions = <<>>

InstantIdle ==
    /\ iText = "" /\ iEnv = None /\ iResult = None /\ iBefore = None /\ iPc = "idle"
    /\ iN = 0

MoreIdle == RingIdle /\ MemoryIdle /\ WorkersIdle /\ SessionIdle /\ InstantIdle

GuardInit ==
    /\ WorldIdle /\ FileIdle /\ PlanIdle /\ MatchIdle /\ RouteIdle
    /\ LlmIdle /\ ContextIdle /\ HandleIdle /\ MoreIdle
    /\ \E e \in Environments : cwd = e[1] /\ userProfile = e[2]
    /\ gOp \in Operations
    /\ gPath \in PathInputs
    /\ gVerdict = NoVerdict
    /\ gPc = "call"

\* one call of SafetyGuard.validate_file_operation(gOp, gPath)
Validate ==
    /\ gPc = "call"
    /\ gVerdict' = validate_file_operation(gOp, gPath)
    /\ gPc' = "done"
    /\ UNCHANGED <<envVars, gOp, gPath, world, fileVars, planVars, matchVars, routeVars,
                   llmVars, cmVars, handleVars, moreVars>>

GuardNext == Validate

SpecGuard == GuardInit /\ [][GuardNext]_vars

-----------------------------------------------------------------------------
(* Claims about SafetyGuard (specification SpecGuard) *)

\* the directories of a path, as Windows compares them: lower-cased names
dir_names(p) == SelectSeq(split(lower(p), BS), LAMBDA f : f # "")

\* abs_path names dir or something below it on a Windows volume
lies_under(abs_path, dir) ==
    LET a == dir_names(abs_path)
        d == dir_names(dir)
    IN  Len(d) <= Len(a) /\ SubSeq(a, 1, Len(d)) = d

\* the protected directories the specification names
ProtectedDirs ==
    {"C:\\Windows", "C:\\Program Files", "C:\\Program Files (x86)",
     "C:\\ProgramData\\Microsoft"}
    \cup (IF userProfile = "" THEN {}
          ELSE {userProfile \o "\\AppData\\Roaming\\Microsoft",
                userProfile \o "\\AppData\\Local\\Microsoft"})

\* C5: validate_file_operation denies, for every operation kind, every path
\* whose absolute form lies under a directory of the protected-path set.
C5_ProtectedPathDenied ==
    (gPc = "done" /\ \E d \in ProtectedDirs : lies_under(abspath(gPath), d))
        => gVerdict[1] = FALSE

\* C8 as stated: a path whose first segment after the drive root names a
\* well-known system folder is denied, however many segments follow.
first_segment(path) ==
    LET parts == split(replace_char(path, "/", BS), BS)
    IN  IF Len(parts) >= 2 /\ Len(parts[1]) = 2 /\ ch(parts[1], 2) = ":"
        THEN lower(parts[2]) ELSE None

SystemFolders == {"windows", "program files", "program files (x86)", "programdata"}

C8_SystemFolderDeniedAtAnyDepth ==
    (gPc = "done" /\ first_segment(gPath) \in SystemFolders) => gVerdict[1] = FALSE

\* C8 amended: a path spelled c:\<name>, the drive and the name in any
\* letter case, with backslashes, no further segment and no trailing
\* separator, is denied when <name> is a well-known system folder, also
\* when no entry of the protected list covers it.
spelled_root_folder(path) ==
    /\ Len(path) > 3
    /\ lower(SubSeq(path, 1, 3)) = "c:\\"
    /\ ~contains(SubSeq(path, 4, Len(path)), BS)
    /\ lower(SubSeq(path, 4, Len(path))) \in SystemFolders

C8_RootSystemFolderDenied ==
    (gPc = "done" /\ spelled_root_folder(gPath)) => gVerdict[1] = FALSE

C8_Witness ==
    /\ gPc = "done"
    /\ spelled_root_folder(gPath)
    /\ ~is_path_protected(gPath)[1]
    /\ gVerdict[1] = FALSE

\* C35 as stated: two paths that differ only in letter case receive the same
\* verdict from validate_file_operation; checked as every path receiving
\* the verdict of its lower-cased spelling, the one template extraction
\* hands on.
C35_SameVerdictInAnyCase ==
    gPc = "done" => validate_file_operation(gOp, lower(gPath))[1] = gVerdict[1]

-----------------------------------------------------------------------------
(* FileManager driven by arbitrary callers (specification SpecFile) *)

MaxCalls == 2

FilePaths == {"C:\\work\\a.txt", "C:\\work\\sub", "C:\\Windows\\a.txt"}

NewNames == {"b.txt"}

FileInit ==
    /\ cwd = "C:\\work" /\ userProfile = "C:\\Users\\me"
    /\ GuardIdle /\ WorldIdle /\ FileIdle /\ PlanIdle /\ MatchIdle /\ RouteIdle
    /\ LlmIdle /\ ContextIdle /\ HandleIdle /\ MoreIdle

FileOthers ==
    <<envVars, guardVars, planVars, matchVars, routeVars, llmVars, cmVars, handleVars,
      moreVars>>

\* the call made, its return value and the world it leaves
file_call(method, args, r) ==
    /\ fCall' = <<method, args>>
    /\ fResult' = r.ret
    /\ fBefore' = world
    /\ world' = r.w
    /\ fN' = fN + 1
    /\ UNCHANGED FileOthers

MoveFile ==
    /\ fN < MaxCalls
    /\ \E src \in FilePaths, dst \in FilePaths, oserr \in BOOLEAN :
          file_call("move_file", <<src, dst>>, move_file(world, src, dst, oserr))

CopyFile ==
    /\ fN < MaxCalls
    /\ \E src \in FilePaths, dst \in FilePaths, oserr \in BOOLEAN :
          file_call("copy_file", <<src, dst>>, copy_file(world, src, dst, oserr))

RenameFile ==
    /\ fN < MaxCalls
    /\ \E old \in FilePaths, new \in NewNames, oserr \in BOOLEAN :
          file_call("rename_file", <<old, new>>, rename_file(world, old, new, oserr))

DeleteToRecycle ==
    /\ fN < MaxCalls
    /\ \E path \in FilePaths, oserr \in BOOLEAN :
          file_call("delete_to_recycle", <<path>>, delete_to_recycle(world, path, oserr))

FileNext == MoveFile \/ CopyFile \/ RenameFile \/ DeleteToRecycle

SpecFile == FileInit /\ [][FileNext]_vars

\* the operation kind each method hands to SafetyGuard
guard_kind(method) ==
    CASE method = "move_file" -> "move"
      [] method = "copy_file" -> "copy"
      [] method = "rename_file" -> "rename"
      [] method = "delete_to_recycle" -> "delete"

\* the paths of a call that SafetyGuard is asked about
guarded_paths(call) ==
    IF call[1] \in {"move_file", "copy_file"} THEN {call[2][1], call[2][2]}
    ELSE {call[2][1]}

\* the verdicts of SafetyGuard that deny a path of a call
denied_verdicts(call) ==
    {v \in {validate_file_operation(guard_kind(call[1]), p) : p \in guarded_paths(call)} :
        ~v[1]}

\* C6: a move, copy, rename or delete whose source (or, for move and copy,
\* destination) SafetyGuard denies returns (false, reason) and attempts no
\* filesystem operation: the filesystem is as before the call.
C6_DeniedCallTouchesNothing ==
    fN > 0 =>
        LET denied == denied_verdicts(fCall)
        IN  denied # {}
                => /\ fResult[1] = FALSE
                   /\ \E v \in denied : fResult[2] = v[2]
                   /\ world.fsCalls = fBefore.fsCalls
                   /\ world.files = fBefore.files
                   /\ world.dirs = fBefore.dirs

\* a move whose source is allowed and whose destination is denied was refused
C6_Witness ==
    /\ fN > 0
    /\ fCall[1] = "move_file"
    /\ validate_file_operation("move", fCall[2][1])[1]
    /\ ~validate_file_operation("move", fCall[2][2])[1]
    /\ fResult[1] = FALSE
    /\ world.fsCalls = <<>>

\* C24: a move, copy, rename or delete_to_recycle that SafetyGuard allows
\* appends exactly one entry to the action log, whether it succeeds or
\* fails, and leaves the entries before it as they were.
C24_OneLogEntryPerOperation ==
    (fN > 0 /\ denied_verdicts(fCall) = {}) =>
        /\ Len(world.action_log) = Len(fBefore.action_log) + 1
        /\ SubSeq(world.action_log, 1, Len(fBefore.action_log)) = fBefore.action_log

-----------------------------------------------------------------------------
(* ActionExecutor.execute_plan (specification SpecPlan) *)

MaxPlanLen == 3

\* the steps plans are made of: handlers that succeed, fail or raise,
\* a call that does not bind, an action the map does not have, and
\* filesystem steps on allowed and on protected paths
PlanSteps ==
    { [action |-> "open_app",      params |-> [app_name |-> "notepad"]],
      [action |-> "open_app",      params |-> [app |-> "notepad"]],
      [action |-> "fly",           params |-> NoParams],
      [action |-> "open_file",     params |-> [path |-> "C:\\work\\" \o TICK \o ".txt"]],
      [action |-> "create_folder", params |-> [path |-> "C:\\Windows\\new"]],
      [action |-> "move_file",     params |-> [source |-> "C:\\work\\a.txt",
                                               destination |-> "C:\\work\\sub"]],
      [action |-> "wait",          params |-> [seconds |-> "soon"]] }

Plans == UNION {[1..n -> PlanSteps] : n \in 0..MaxPlanLen}

PlanInit ==
    /\ cwd = "C:\\work" /\ userProfile = "C:\\Users\\me"
    /\ GuardIdle /\ WorldIdle /\ FileIdle /\ MatchIdle /\ RouteIdle
    /\ LlmIdle /\ ContextIdle /\ HandleIdle /\ MoreIdle
    /\ plan \in Plans
    /\ pStep = 0 /\ results = <<>> /\ pKinds = <<>> /\ pRet = None
    /\ pPc = IF plan = <<>> THEN "return" ELSE "loop"

PlanOthers ==
    <<envVars, guardVars, fileVars, matchVars, routeVars, llmVars, cmVars, handleVars,
      moreVars>>

\* one iteration of: for i, step in enumerate(plan, 1)
ExecuteStep ==
    /\ pPc = "loop"
    /\ \E oserr \in BOOLEAN :
          LET recorded(i, r) ==
                  /\ results' = Append(results, r.msg)
                  /\ pKinds' = Append(pKinds, r.kind)
                  /\ world' = r.w
                  /\ pStep' = i
                  /\ pPc' = after_step(i, Len(plan), r.kind)
          IN  recorded(pStep + 1,
                       run_step(world, pStep + 1, Len(plan), plan[pStep + 1], oserr))
    /\ UNCHANGED <<plan, pRet, PlanOthers>>

\* success = all(...); return success, results
ReturnPlan ==
    /\ pPc = "return"
    /\ pRet' = <<overall_success(results), results>>
    /\ pPc' = "done"
    /\ UNCHANGED <<plan, pStep, results, pKinds, world, PlanOthers>>

PlanNext == ExecuteStep \/ ReturnPlan

SpecPlan == PlanInit /\ [][PlanNext]_vars

\* the message of step i carries its number
names_step(message, i) == contains(message, " Step " \o ToString(i))

\* a result message reports a failure: it leads with the ballot x or the
\* cross mark
reports_failure(message) == ch(message, 1) \in {CROSS, XMARK}

\* C3: execute_plan goes through the n steps of the plan in order and returns
\* exactly n result messages, the i-th about step i; a step whose action is
\* unknown or whose dispatch raises is recorded as a failure of that step
\* and the steps after it still run.
C3_EveryStepRunsAndReports ==
    /\ Len(results) = pStep /\ Len(pKinds) = pStep /\ pStep <= Len(plan)
    /\ \A i \in 1..pStep :
          /\ names_step(results[i], i)
          /\ pKinds[i] = "unknown" <=> plan[i].action \notin action_map
          /\ pKinds[i] \in {"unknown", "raised"} => reports_failure(results[i])
    /\ pPc \in {"return", "done"} => pStep = Len(plan)
    /\ pPc = "done" => pRet[2] = results /\ Len(pRet[2]) = Len(plan)

\* a plan returned whose first step raised or was unknown and whose last
\* step succeeded
C3_Witness ==
    /\ pPc = "done" /\ Len(plan) = MaxPlanLen
    /\ pKinds[1] = "raised" /\ pKinds[2] = "unknown"
    /\ pKinds[Len(plan)] = "succeeded"

\* C4: the overall success execute_plan returns is true exactly when every
\* step succeeded, whatever the messages say.
C4_SuccessIffAllStepsSucceeded ==
    pPc = "done" => (pRet[1] <=> \A i \in 1..Len(pKinds) : pKinds[i] = "succeeded")

\* "Available Actions" of the planner prompt: each documented action with
\* the parameter names the prompt gives for it
available_actions ==
    [open_app      |-> {"app"},
     open_file     |-> {"path"},
     type_text     |-> {"text"},
     press_key     |-> {"key"},
     search_web    |-> {"query", "engine"},
     list_files    |-> {"directory"},
     create_folder |-> {"path"},
     wait          |-> {"seconds"}]

\* a step that uses a documented action with exactly its documented
\* parameter names
as_documented(step) ==
    /\ step.action \in DOMAIN available_actions
    /\ DOMAIN step.params = available_actions[step.action]

\* C38 as stated: a plan step written as the planner prompt documents it is
\* in the dispatch table, and execute_plan calls its handler without a
\* parameter-binding error.
C38_DocumentedStepsDispatch ==
    \A i \in 1..pStep :
        as_documented(plan[i]) =>
            /\ plan[i].action \in action_map
            /\ binds(plan[i].action, plan[i].params)
            /\ ~contains(results[i], "keyword argument")

\* the paths a recorded filesystem call works on
call_paths(call) == {call[2][k] : k \in 1..Len(call[2])}

\* a validate_file_operation call on path p returned allowed before the
\* filesystem call was made
validated_before(w, call, p) ==
    \E j \in 1..Min(call[3], Len(w.validations)) :
        w.validations[j][2] = p /\ w.validations[j][3]

\* C7: every filesystem-modifying call is preceded by a
\* validate_file_operation call on each of its paths that returned allowed.
C7_ModificationsValidatedFirst ==
    \A k \in 1..Len(world.fsCalls) :
        \A p \in call_paths(world.fsCalls[k]) : validated_before(world, world.fsCalls[k], p)

-----------------------------------------------------------------------------
(* SmartTemplateMatcher.match (specification SpecMatch) *)

MaxWords == 4

Vocabulary == {"open", "chrome", "and", "then", "search", "gravity"}

\* the words of ws joined by single blanks
sentence(ws) == join(ws, " ")

\* commands of up to MaxWords words, and some in other spellings
MatchCommands ==
    {sentence(ws) : ws \in UNION {[1..n -> Vocabulary] : n \in 1..MaxWords}}
    \cup { "open chrome and search gravity",
           "search gravity and newton",
           "Open Chrome AND Search gravity",
           " open chrome  and  search gravity ",
           "open chrome and searching",
           "open chrome and search gravity then open notepad and type hello" }

MatchInit ==
    /\ cwd = "C:\\work" /\ userProfile = "C:\\Users\\me"
    /\ GuardIdle /\ WorldIdle /\ FileIdle /\ PlanIdle /\ RouteIdle
    /\ LlmIdle /\ ContextIdle /\ HandleIdle /\ MoreIdle
    /\ mCommand \in MatchCommands
    /\ mResult = NoTemplate
    /\ mPc = "call"

\* one call of SmartTemplateMatcher.match(mCommand)
Match ==
    /\ mPc = "call"
    /\ mResult' = match(mCommand)
    /\ mPc' = "done"
    /\ UNCHANGED <<mCommand, envVars, guardVars, world, fileVars, planVars, routeVars,
                   llmVars, cmVars, handleVars, moreVars>>

MatchNext == Match

SpecMatch == MatchInit /\ [][MatchNext]_vars

\* the words of a command: what blanks separate, in lower case
words(command) == split_blanks(lower(command))

Conjunctions == {"and", "then"}

Verbs == {command_verbs[k] : k \in 1..Len(command_verbs)}

\* the positions from the given one on of a conjunction that a command verb
\* follows
boundaries(ws, from) ==
    {i \in from..(Len(ws) - 1) : ws[i] \in Conjunctions /\ ws[i + 1] \in Verbs}

\* the parts of ws between its boundaries after the first word, in order
RECURSIVE parts_between(_)
parts_between(ws) ==
    IF boundaries(ws, 2) = {} THEN <<sentence(ws)>>
    ELSE LET b == CHOOSE i \in boundaries(ws, 2) : \A j \in boundaries(ws, 2) : i <= j
         IN  <<sentence(SubSeq(ws, 1, b - 1))>> \o parts_between(SubSeq(ws, b + 1, Len(ws)))

\* a command "search <query>" that no other template claims
plain_search(ws) ==
    /\ Len(ws) >= 2 /\ ws[1] = "search"
    /\ \A k \in 2..Len(ws) : ws[k] \notin {"all", "in", "file", "files"}
    /\ \A k \in 1..Len(ws) : \A v \in {"list", "show", "display", "get"} : ~contains(ws[k], v)

\* C9 as stated: match returns chain_execution exactly when the command
\* contains a conjunction (and, then) immediately followed by a command verb.
C9_ChainIffConjunctionBeforeVerb ==
    mPc = "done" =>
        (mResult.action = "chain_execution" <=> boundaries(words(mCommand), 1) # {})

\* C9, amended: match returns chain_execution exactly when the command
\* contains, after its first word, a conjunction immediately followed by a
\* command verb; params.commands is then the ordered list of the parts
\* between those boundaries; a command "search ..." without such a boundary
\* is one search_files match whose file_type is the whole remainder.
C9_ChainIffInnerConjunctionBeforeVerb ==
    mPc = "done" =>
        LET ws == words(mCommand)
        IN  /\ mResult.action = "chain_execution" <=> boundaries(ws, 2) # {}
            /\ boundaries(ws, 2) # {} => mResult.params.commands = parts_between(ws)
            /\ (boundaries(ws, 2) = {} /\ plain_search(ws)) =>
                   mResult = [action |-> "search_files",
                              params |-> [file_type |-> sentence(Tail(ws))]]

\* "open chrome and search gravity" was split in two
C9_Witness ==
    /\ mPc = "done"
    /\ mCommand = "open chrome and search gravity"
    /\ mResult.action = "chain_execution"
    /\ mResult.params.commands = <<"open chrome", "search gravity">>

\* "search gravity and newton" was matched as one search
C9_WitnessNotSplit ==
    /\ mPc = "done"
    /\ mCommand = "search gravity and newton"
    /\ mResult.action = "search_files"

-----------------------------------------------------------------------------
(* VisionAI.process_command (specification SpecRoute) *)

\* ActionExecutor.execute_plan(plan) run to its end from step i on
RECURSIVE plan_from(_, _, _, _, _)
plan_from(w, steps, i, rs, oserr) ==
    IF i > Len(steps) THEN [ret |-> <<overall_success(rs), rs>>, w |-> w]
    ELSE LET stepped(r) == plan_from(r.w, steps, i + 1, Append(rs, r.msg), oserr)
         IN  stepped(run_step(w, i, Len(steps), steps[i], oserr))

execute_plan(w, steps, oserr) == plan_from(w, steps, 1, <<>>, oserr)

\* what llm.parse_ambiguous_command may hand back: None, an empty list or a
\* plan
LlmOutputs ==
    { [none |-> TRUE,  actions |-> <<>>],
      [none |-> FALSE, actions |-> <<>>],
      [none |-> FALSE, actions |-> <<[action |-> "open_app",
                                      params |-> [app_name |-> "notepad"]]>>],
      [none |-> FALSE, actions |-> <<[action |-> "click_element",
                                      params |-> [element |-> "ok"]]>>] }

\* the template tier goes on to the next tier even after a success
after_template_always_continues(success) == "fast"

\* if success: ... return
after_template(success) == IF truthy(success) THEN "return" ELSE "fast"

\* a None from the handler is treated like False
after_fast_none_falls_through(result) == IF result = True THEN "return" ELSE "instant"

\* if result is True: ... return / elif result is None: return
after_fast(result) ==
    IF result = True THEN "return" ELSE IF result = None THEN "stop" ELSE "instant"

\* the instant tier never ends the cascade
after_instant_falls_through(ret) == "llm"

\* if self.instant_execute(...): ... return
after_instant(ret) == IF ret THEN "return" ELSE "llm"

\* the planner's answer is always taken for a plan
after_llm_always_executes(out) == "execute"

\* if actions: ... else: "I didn't understand that command."
after_llm(out) == IF ~out.none /\ out.actions # <<>> THEN "execute" ELSE "not understood"

frame(id, text) ==
    [kind |-> "process_command", id |-> id, text |-> text, pc |-> "template",
     action |-> "", commands |-> <<>>, i |-> 0]

\* the frame of _execute_chain or _open_and_do, called by the frame below it
handler_frame(parent, action, commands) ==
    [kind |-> "handler", id |-> parent.id, text |-> parent.text, pc |-> "loop",
     action |-> action, commands |-> commands, i |-> 1]

\* one tier of one process_command call: ran tells that the tier matched
\* and ran a handler, ret is what the tier's call returned
event(f, tier, detail, ran, ret) ==
    [id |-> f.id, text |-> f.text, tier |-> tier, detail |-> detail, ran |-> ran,
     ret |-> ret]

\* memory.remember_command(text, success, elapsed, method)
record(text, success, method) == [command |-> text, success |-> success, method |-> method]

top == stack[Len(stack)]

popped(st) == SubSeq(st, 1, Len(st) - 1)

at_pc(st, pc) == [st EXCEPT ![Len(st)].pc = pc]

at_tier(pc) == stack # <<>> /\ top.kind = "process_command" /\ top.pc = pc

RouteOthers ==
    <<envVars, guardVars, fileVars, planVars, matchVars, llmVars, cmVars, handleVars,
      moreVars>>

\* smart_templates.execute returned ret to the process_command frame on top
\* of st
template_returned(st, ret, action, ran) ==
    LET f == st[Len(st)]
    IN  /\ log' = Append(log, event(f, "template", action, ran, ret))
        /\ IF after_template(ret) = "return"
           THEN /\ history' = Append(history, record(f.text, TRUE, "Template: " \o action))
                /\ stack' = popped(st)
           ELSE /\ history' = history
                /\ stack' = at_pc(st, "fast")

\* PRIORITY 1: template_match = smart_templates.match(text) and, on a match,
\* smart_templates.execute
TemplateTier ==
    /\ at_tier("template")
    /\ \E m \in {match(top.text)} :
           IF m = NoTemplate
           THEN /\ stack' = at_pc(stack, "fast")
                /\ UNCHANGED <<log, history, world, ctx>>
           ELSE IF m.action = "chain_execution"
           THEN /\ stack' = Append(at_pc(stack, "in_template"),
                                   handler_frame(top, m.action, m.params.commands))
                /\ UNCHANGED <<log, history, world, ctx>>
           ELSE IF m.action = "open_and_do"
           THEN \E env \in Envs :
                   IF launch_app(m.params.app, env)
                   THEN /\ stack' = Append(at_pc(stack, "in_template"),
                                           handler_frame(top, m.action, <<m.params.action>>))
                        /\ UNCHANGED <<log, history, world, ctx>>
                   ELSE /\ template_returned(stack, False, m.action, TRUE)
                        /\ UNCHANGED <<world, ctx>>
           ELSE \E env \in Envs :
                   \E r \in {execute(world, ctx, m.action, m.params, env)} :
                       /\ template_returned(stack, r.ret, m.action, r.handler)
                       /\ world' = r.w
                       /\ ctx' = r.c
    /\ UNCHANGED <<nextId, crashed, RouteOthers>>

\* _execute_chain / _open_and_do: self.vision.process_command(cmd) for the
\* next sub-command, or return True after the last
HandlerStep ==
    /\ stack # <<>> /\ top.kind = "handler"
    /\ IF top.i <= Len(top.commands)
       THEN /\ stack' = Append([stack EXCEPT ![Len(stack)].i = @ + 1],
                               frame(nextId + 1, top.commands[top.i]))
            /\ nextId' = nextId + 1
            /\ UNCHANGED <<log, history>>
       ELSE /\ template_returned(popped(stack), True, top.action, TRUE)
            /\ UNCHANGED nextId
    /\ UNCHANGED <<world, ctx, crashed, RouteOthers>>

\* PRIORITY 2: result = fast_complex.handle(text)
FastTier ==
    /\ at_tier("fast")
    /\ \E env \in Envs :
          \E r \in {handle(world, ctx, top.text, env)} :
          LET next == after_fast(r.ret)
          IN  /\ log' = Append(log, event(top, "fast", r.pattern, r.pattern # "none", r.ret))
              /\ world' = r.w
              /\ ctx' = r.c
              /\ stack' = IF next = "instant" THEN at_pc(stack, "instant") ELSE popped(stack)
              /\ history' = IF next = "return"
                            THEN Append(history, record(top.text, TRUE, "Fast complex handler"))
                            ELSE history
    /\ UNCHANGED <<nextId, crashed, RouteOthers>>

\* the indices of the handler frames of a stack
handler_frames(st) == {k \in 1..Len(st) : st[k].kind = "handler"}

\* an exception leaves the process_command frame on top: the try of
\* smart_templates.execute around the innermost handler frame catches it and
\* execute returns False; with no handler frame it leaves the worker
exception_raised(lg) ==
    IF handler_frames(stack) = {}
    THEN /\ stack' = <<>>
         /\ crashed' = TRUE
         /\ log' = lg
         /\ history' = history
    ELSE LET k == CHOOSE j \in handler_frames(stack) : \A l \in handler_frames(stack) : l <= j
             st == SubSeq(stack, 1, k - 1)
             f == st[Len(st)]
         IN  /\ crashed' = crashed
             /\ log' = Append(lg, event(f, "template", stack[k].action, TRUE, False))
             /\ IF after_template(False) = "return"
                THEN /\ history' = Append(history,
                                          record(f.text, TRUE, "Template: " \o stack[k].action))
                     /\ stack' = popped(st)
                ELSE /\ history' = history
                     /\ stack' = at_pc(st, "fast")

\* PRIORITY 3: self.instant_execute(text.lower().strip())
InstantTier ==
    /\ at_tier("instant")
    /\ \E env \in Envs :
          \E r \in {instant_execute(world, ctx, strip(lower(top.text)), env)} :
          LET lg == Append(log, event(top, "instant", r.rule, r.rule # "none",
                                      IF r.raised THEN "raised" ELSE python_bool(r.ret)))
          IN  /\ world' = r.w
              /\ ctx' = r.c
              /\ IF r.raised THEN exception_raised(lg)
                 ELSE /\ log' = lg
                      /\ crashed' = crashed
                      /\ IF after_instant(r.ret) = "return"
                         THEN /\ stack' = popped(stack)
                              /\ history' = Append(history,
                                                   record(top.text, TRUE, "Pattern match"))
                         ELSE /\ stack' = at_pc(stack, "llm")
                              /\ history' = history
    /\ UNCHANGED <<nextId, RouteOthers>>

\* PRIORITY 4: actions = llm.parse_ambiguous_command(text, context), then
\* executor.execute_plan(actions) or "I didn't understand"
LlmTier ==
    /\ at_tier("llm")
    /\ \E out \in LlmOutputs, env \in Envs :
          IF after_llm(out) = "execute"
          THEN \E r \in {execute_plan(world, out.actions, env.oserr)} :
                   /\ log' = Append(log, event(top, "llm", "execute_plan", TRUE,
                                               python_bool(r.ret[1])))
                   /\ world' = r.w
                   /\ history' = Append(history,
                          record(top.text, TRUE,
                                 "LLM: " \o ToString(Len(out.actions)) \o " actions"))
          ELSE /\ log' = Append(log, event(top, "llm", "not understood", FALSE, False))
               /\ world' = world
               /\ history' = Append(history, record(top.text, FALSE, "Not understood"))
    /\ stack' = popped(stack)
    /\ UNCHANGED <<ctx, nextId, crashed, RouteOthers>>

\* the commands the worker is started on
RouteCommands ==
    { "get time", "copy a to b", "clear", "cpu usage", "delete date.txt",
      "organize downloads", "sort downloads", "list files in downloads folder",
      "make a list of downloads in notepad", "find pdf and move to desktop",
      "open chrome", "open chrome and search gravity", "search gravity and newton",
      "open notepad then write hello", "play cats youtube and pause",
      "what is love", "show config" }

\* a world without the Downloads and time folders
BareWorld ==
    [InitialWorld EXCEPT
        !.files = {f \in @ : ~startswith(f, "C:\\Users\\me\\Downloads")
                             /\ ~startswith(f, "C:\\work\\time")},
        !.dirs = {d \in @ : ~startswith(d, "C:\\Users\\me\\Downloads")
                            /\ ~startswith(d, "C:\\work\\time")}]

\* the worker thread of one command: process_command(text)
RouteInit ==
    /\ cwd = "C:\\work" /\ userProfile = "C:\\Users\\me"
    /\ GuardIdle /\ FileIdle /\ PlanIdle /\ MatchIdle
    /\ LlmIdle /\ ContextIdle /\ HandleIdle /\ MoreIdle
    /\ world \in {InitialWorld, BareWorld}
    /\ \E text \in RouteCommands : stack = <<frame(1, text)>>
    /\ log = <<>> /\ history = <<>> /\ nextId = 1 /\ crashed = FALSE
    /\ ctx = InitialContext

RouteNext == TemplateTier \/ HandlerStep \/ FastTier \/ InstantTier \/ LlmTier

SpecRoute == RouteInit /\ [][RouteNext]_vars

-----------------------------------------------------------------------------
(* Claims about the routing cascade (specification SpecRoute) *)

\* what the tiers of the process_command call id did, in order
events_of(id) == SelectSeq(log, LAMBDA e : e.id = id)

tier_rank(tier) ==
    CASE tier = "template" -> 1 [] tier = "fast" -> 2 [] tier = "instant" -> 3
      [] tier = "llm" -> 4

\* the tier reported the command handled: process_command returns after it
claims(e) ==
    CASE e.tier = "template" -> e.ret = True
      [] e.tier = "fast"     -> e.ret \in {True, None}
      [] e.tier = "instant"  -> e.ret = True
      [] e.tier = "llm"      -> TRUE

\* the tiers of each call come in the order template, fast, instant, llm
tiers_in_order(es) ==
    \A k \in 1..(Len(es) - 1) : tier_rank(es[k].tier) < tier_rank(es[k + 1].tier)

\* C1 as stated: the tiers are tried in the fixed order and at most one
\* tier matches the command and executes its handler.
C1_AtMostOneTierExecutes ==
    \A id \in 1..nextId :
        LET es == events_of(id)
        IN  /\ tiers_in_order(es)
            /\ Cardinality({k \in 1..Len(es) : es[k].ran}) <= 1

\* C1, amended: the tiers are tried in the fixed order and the cascade
\* stops at the first tier that reports the command handled (template
\* execute returned true, handle returned true or none, instant_execute
\* returned true, or the planner tier was reached); a template that matched
\* and whose handler returned false or none lets the cascade go on.
C1_CascadeStopsAtFirstClaim ==
    \A id \in 1..nextId :
        LET es == events_of(id)
        IN  /\ tiers_in_order(es)
            /\ \A k \in 1..(Len(es) - 1) : ~claims(es[k])
            /\ (\A k \in 1..Len(stack) : stack[k].id # id) /\ es # <<>>
                   => claims(es[Len(es)]) \/ es[Len(es)].ret = "raised"

\* a template matched, its handler ran and returned false, and the instant
\* tier then handled the same command
C1_Witness ==
    \E id \in 1..nextId :
        LET es == events_of(id)
        IN  /\ Len(es) >= 3
            /\ es[1].tier = "template" /\ es[1].ran /\ es[1].ret = False
            /\ es[Len(es)].tier = "instant" /\ es[Len(es)].ret = True

\* C2: when the handle call of the fast tier returns none, process_command
\* returns: no instant_execute, planner or execute_plan follows for that
\* command.
C2_FastNoneStopsCascade ==
    \A k \in 1..Len(log) :
        (log[k].tier = "fast" /\ log[k].ret = None)
            => /\ \A j \in (k + 1)..Len(log) : log[j].id # log[k].id
               /\ \A j \in 1..Len(stack) :
                     ~(stack[j].kind = "process_command" /\ stack[j].id = log[k].id)

\* handle returned none in the fast tier of a command and the worker is done
C2_Witness ==
    /\ stack = <<>> /\ ~crashed
    /\ \E k \in 1..Len(log) : log[k].tier = "fast" /\ log[k].ret = None /\ log[k].id = 1

KeywordRules == {"clear", "copy", "config", "cpu", "ram", "time", "date"}

\* C10 as stated: for a command that matches a template, no generic keyword
\* rule of instant_execute ever executes.
C10_KeywordRuleNeverRunsAfterTemplateMatch ==
    \A k \in 1..Len(log) :
        (log[k].tier = "instant" /\ log[k].detail \in KeywordRules)
            => match(log[k].text) = NoTemplate

\* C10, amended: for a command that matches a template and a generic keyword
\* rule, the keyword rule executes only when the template's execute did not
\* return true; when it returned true the template's action handled the
\* command and instant_execute is not called for it.
C10_KeywordRuleOnlyAfterTemplateFailed ==
    \A k \in 1..Len(log) :
        /\ (log[k].tier = "template" /\ log[k].ret = True)
              => \A j \in 1..Len(log) : log[j].id = log[k].id => log[j].tier = "template"
        /\ (log[k].tier = "instant" /\ log[k].detail \in KeywordRules
                /\ match(log[k].text) # NoTemplate)
              => \E j \in 1..(k - 1) :
                    /\ log[j].id = log[k].id /\ log[j].tier = "template"
                    /\ log[j].ret # True

\* "get time" matched the list_files template, whose listing succeeded: the
\* command was handled there although the time keyword rule matches it too
C10_Witness ==
    /\ stack = <<>>
    /\ Len(log) = 1
    /\ log[1].tier = "template" /\ log[1].ret = True
    /\ contains(log[1].text, "time")
    /\ history = <<record(log[1].text, TRUE, "Template: list_files")>>

\* the process_command call id has returned (or was left by an exception)
returned_call(id) ==
    /\ events_of(id) # <<>>
    /\ \A k \in 1..Len(stack) : stack[k].id # id

\* the memory records of the command text
records_of(text) == SelectSeq(history, LAMBDA r : r.command = text)

\* C11 as stated: every process_command call that has returned left a memory
\* record of its command, whatever tier ended it, the fast tier's none
\* included.
C11_EveryCallRecorded ==
    \A id \in 1..nextId :
        returned_call(id) => records_of(events_of(id)[1].text) # <<>>

C13_NoFaultEscapesWorker == ~crashed

\* C16 as stated: whatever the action and its parameters,
\* smart_templates.execute returns exactly True or exactly False, a handler
\* or collaborator failure giving False.
C16_ExecuteReturnsBool ==
    \A k \in 1..Len(log) :
        log[k].tier = "template" => log[k].ret \in {True, False}

\* C37 as stated: every action that match returns has a branch in execute,
\* so whenever the template tier matched, execute ran a handler for the
\* action and did not fall through to its closing "return False".
C37_MatchedActionHasHandler ==
    \A k \in 1..Len(log) : log[k].tier = "template" => log[k].ran

\* the texts of the process_command calls that logged lg, one per run of
\* events of the same call
calls_in(lg) ==
    LET starts == SelectSeq([j \in 1..Len(lg) |-> j],
                            LAMBDA j : j = 1 \/ lg[j].id # lg[j - 1].id)
    IN  [n \in 1..Len(starts) |-> lg[starts[n]].text]

\* the events the sub-commands of the call that logged log[k] left before it
sub_events(k) == SelectSeq(SubSeq(log, 1, k - 1), LAMBDA e : e.id > log[k].id)

\* C17 as stated: when execute returns from a chain_execution, every
\* sub-command has gone through process_command, one after the other in
\* list order, and execute returns True whatever happened to each.
C17_ChainDispatchesAll ==
    \A k \in 1..Len(log) :
        log[k].tier = "template" /\ log[k].detail = "chain_execution" =>
            /\ log[k].ret = True
            /\ calls_in(sub_events(k)) = match(log[k].text).params.commands

\* the events the tier left for the command of a memory record
tier_events(r, tier) == SelectSeq(log, LAMBDA e : e.tier = tier /\ e.text = r.command)

\* C34 as stated: whenever process_command records a command as succeeded,
\* the tier that handled it did succeed: for the planner tier execute_plan
\* returned overall success, for the instant tier the rule did not end in
\* 'not found'.
C34_RecordedSuccessIsReal ==
    \A n \in 1..Len(history) :
        LET r == history[n]
        IN  /\ (r.success /\ startswith(r.method, "LLM: ")) =>
                  \A k \in 1..Len(tier_events(r, "llm")) :
                      tier_events(r, "llm")[k].ret = True
            /\ (r.success /\ r.method = "Pattern match") =>
                  \A k \in 1..Len(tier_events(r, "instant")) :
                      tier_events(r, "instant")[k].detail # "open_not_found"

-----------------------------------------------------------------------------
(* LLMController.parse_ambiguous_command on arbitrary model output           *)
(* (specification SpecLlm)                                                   *)

MaxTokens == 3

\* a complete step, and a step without params
STEP == "{\"action\": \"wait\", \"params\": {}}"
BARE_STEP == "{\"action\": \"wait\"}"

LlmTokens == {"[", "]", STEP, BARE_STEP, ", ", "1"}

\* the fence is a stop sequence of the inference call, so the text the model
\* hands back never holds one
LlmLeads == {"", " ", "Plan: "}

LlmTrails == {"", "]", " ok"}

RECURSIVE concat(_)
concat(parts) == IF parts = <<>> THEN "" ELSE Head(parts) \o concat(Tail(parts))

\* what the model may answer: some lead, up to MaxTokens tokens, some trail
LlmResponses ==
    {lead \o concat(body) \o trail :
        lead \in LlmLeads, trail \in LlmTrails,
        body \in UNION {[1..n -> LlmTokens] : n \in 0..MaxTokens}}

LlmInit ==
    /\ cwd = "C:\\work" /\ userProfile = "C:\\Users\\me"
    /\ GuardIdle /\ WorldIdle /\ FileIdle /\ PlanIdle /\ MatchIdle /\ RouteIdle
    /\ ContextIdle /\ HandleIdle /\ MoreIdle
    /\ lEnv \in LlmEnvs
    /\ lResponse \in LlmResponses
    /\ lResult = None
    /\ lPc = "call"

\* one call of parse_ambiguous_command
ParseAmbiguousCommand ==
    /\ lPc = "call"
    /\ lResult' = parse_ambiguous_command(lEnv, lResponse)
    /\ lPc' = "done"
    /\ UNCHANGED <<lEnv, lResponse, envVars, guardVars, world, fileVars, planVars,
                   matchVars, routeVars, cmVars, handleVars, moreVars>>

LlmNext == ParseAmbiguousCommand

SpecLlm == LlmInit /\ [][LlmNext]_vars

\* a list whose every element is an object with an action and params
is_plan(v) ==
    /\ v.t = "list"
    /\ \A k \in 1..Len(v.items) :
          /\ v.items[k].t = "dict"
          /\ \A key \in {"action", "params"} :
                \E j \in 1..Len(v.items[k].keys) : v.items[k].keys[j] = key

\* C14 as stated: parse_ambiguous_command never raises and returns none or
\* a complete plan, a list whose every element is an {action, params}
\* object; any other output of the model yields none.
C14_NoneOrCompletePlan ==
    lPc = "done" => /\ ~lResult.raised
                    /\ lResult.none \/ is_plan(lResult.v)

-----------------------------------------------------------------------------
(* FastComplexHandler.handle on its own (specification SpecHandle)           *)

FindCommands ==
    {verb \o what \o link \o dest :
        verb \in {"find ", "Find all "}, what \in {"pdf", "notes", "zzz"},
        link \in {" and move to ", " move to ", " and move them into "},
        dest \in {"desktop", "documents", "old"}}

HandleCommands ==
    FindCommands \cup
    { "organize downloads", " Organize my Downloads", "make a list of downloads in notepad",
      "write list of files in notepad", "open chrome and search gravity",
      "open foo search x", "get time", "find pdf", "move pdf to desktop",
      "search gravity", "open chrome", "organize", "list downloads" }

HandleInit ==
    /\ cwd = "C:\\work" /\ userProfile = "C:\\Users\\me"
    /\ GuardIdle /\ FileIdle /\ PlanIdle /\ MatchIdle /\ RouteIdle
    /\ LlmIdle /\ ContextIdle /\ MoreIdle
    /\ world \in {InitialWorld, BareWorld}
    /\ hBefore = world
    /\ hText \in HandleCommands
    /\ hEnv \in Envs
    /\ hResult = None /\ hReported = -1
    /\ hPc = "call"

\* one call of fast_complex.handle(text)
Handle ==
    /\ hPc = "call"
    /\ \E r \in {handle(world, ctx, hText, hEnv)} :
          /\ hResult' = r.ret
          /\ hReported' = r.reported
          /\ world' = r.w
    /\ hPc' = "done"
    /\ UNCHANGED <<hText, hEnv, hBefore, envVars, guardVars, fileVars, planVars,
                   matchVars, routeVars, llmVars, cmVars, moreVars>>

HandleNext == Handle

SpecHandle == HandleInit /\ [][HandleNext]_vars

\* which of the four patterns the text of the call matched, "none" if none
matched_pattern == handle(hBefore, ctx, hText, hEnv).pattern

\* the files the call was asked to move: the first ten the search gave
asked_to_move(file_type) ==
    LET taken(hits) ==
            IF listing_ok(hits) THEN SubSeq(hits, 1, Min(10, Len(hits))) ELSE <<>>
    IN  taken(search_files(hBefore, file_type, None).ret)

find_groups ==
    re_search(<<Lit("find"), Ws, Opt(<<Lit("all"), Ws>>), Lazy(1), Ws,
                Opt(<<Lit("and"), Ws>>), Lit("move"), AnyLazy,
                Opt(<<Lit("to"), Ws>>), Word(2)>>, 2, strip(lower(hText))).caps

\* the files of the Downloads folder that have a category folder
to_organize ==
    {f \in hBefore.files : /\ dirname(f) = abspath(expanduser("~/Downloads"))
                           /\ folders_of(extension(basename(f))) # <<>>}

\* the intent of the matched pattern has taken effect
carried_out ==
    CASE matched_pattern = "find_and_move" ->
            LET asked == asked_to_move(find_groups[1])
            IN  /\ asked # <<>>
                /\ \A k \in 1..Len(asked) : ~exists(world, asked[k].path)
      [] matched_pattern = "organize" ->
            /\ isdir(hBefore, expanduser("~/Downloads"))
            /\ \A f \in to_organize : ~exists(world, f)
      [] matched_pattern = "list_in_notepad" ->
            isdir(hBefore, expanduser("~/Downloads")) /\ ~hEnv.oserr
      [] matched_pattern = "open_and_search" -> hEnv.ok
      [] OTHER -> FALSE

\* C15 as stated: handle returns False exactly when no pattern matches; for
\* a matched pattern it returns True when the intent was carried out and
\* None when it was not.
C15_HandleTriState ==
    hPc = "done" =>
        /\ hResult = False <=> matched_pattern = "none"
        /\ matched_pattern # "none" =>
              hResult = (IF carried_out THEN True ELSE None)

-----------------------------------------------------------------------------
(* ContextManager under set_context and clear_context calls                 *)
(* (specification SpecContext)                                               *)

Apps == {"youtube", "notepad", "browser", "file_explorer"}

\* the keyword arguments a caller may pass for an application, each with
\* one value
Keywords ==
    [youtube |-> [videos |-> <<"v1", "v2">>, browser |-> "driver"],
     notepad |-> [handle |-> "hwnd", process |-> "proc"],
     browser |-> [browser |-> "driver", url |-> "https://example.com"],
     file_explorer |-> [directory |-> "C:\\work", files |-> <<"a.txt">>]]

\* every subset of the application's keywords
KwargsOf(app) ==
    {[key \in keys |-> Keywords[app][key]] : keys \in SUBSET DOMAIN Keywords[app]}

ContextInit ==
    /\ cwd = "C:\\work" /\ userProfile = "C:\\Users\\me"
    /\ GuardIdle /\ WorldIdle /\ FileIdle /\ PlanIdle /\ MatchIdle /\ RouteIdle
    /\ LlmIdle /\ HandleIdle /\ MoreIdle
    /\ cm = NewContext
    /\ now = 1 /\ lastHandled = 0

ContextOthers ==
    <<envVars, guardVars, world, fileVars, planVars, matchVars, routeVars, llmVars,
      handleVars, moreVars>>

\* context.set_context(app, **kwargs); an application the manager does not
\* know changes current_app only
SetContext ==
    /\ \E app \in Apps : \E kwargs \in KwargsOf(app) :
          cm' = set_context(cm, app, kwargs)
    /\ UNCHANGED <<now, lastHandled, ContextOthers>>

SetUnknownContext ==
    /\ cm' = set_context(cm, "spotify", <<>>)
    /\ UNCHANGED <<now, lastHandled, ContextOthers>>

\* context.clear_context(app), context.clear_context()
ClearContext ==
    /\ \E app \in Apps \cup {None} : cm' = clear_context(cm, app)
    /\ UNCHANGED <<now, lastHandled, ContextOthers>>

ContextNext == SetContext \/ SetUnknownContext \/ ClearContext

SpecContext == ContextInit /\ [][ContextNext]_vars

\* the active flag the manager keeps for the surface app names; a name the
\* manager keeps no flag for is not active
active_flag(c, app) ==
    CASE app = "youtube"       -> c.youtube_active
      [] app = "notepad"       -> c.notepad_active
      [] app = "browser"       -> c.browser_active
      [] app = "file_explorer" -> c.file_explorer_active
      [] OTHER                 -> FALSE

\* C39 as stated: after any sequence of set_context and clear_context calls
\* current_app is None or names a surface whose active flag is true.
C39_CurrentAppIsActive ==
    cm.current_app = None \/ active_flag(cm, cm.current_app)

\* C18: after any sequence of set_context and clear_context calls,
\* youtube_active and browser_active are never both true.
C18_OneSurfaceActive == ~(cm.youtube_active /\ cm.browser_active)

\* the browser surface was set after the YouTube one, whose videos are
\* still held, and YouTube is no longer active
C18_Witness ==
    /\ cm.current_app = "browser" /\ cm.browser_active /\ ~cm.youtube_active
    /\ cm.youtube_videos # <<>>

-----------------------------------------------------------------------------
(* The freshness window of the ContextManager as time passes                 *)
(* (specification SpecFresh)                                                 *)

MaxTime == 500

MaxAdds == 2

\* the seconds that pass between two calls
TickSteps == {100, 101, 200}

FollowUps == {"pause", "next video"}

FreshInit ==
    /\ cwd = "C:\\work" /\ userProfile = "C:\\Users\\me"
    /\ GuardIdle /\ WorldIdle /\ FileIdle /\ PlanIdle /\ MatchIdle /\ RouteIdle
    /\ LlmIdle /\ HandleIdle /\ MoreIdle
    /\ cm = NewContext
    /\ now = 1 /\ lastHandled = 0

\* time.time() moves on
Tick ==
    /\ \E d \in TickSteps : now + d <= MaxTime /\ now' = now + d
    /\ UNCHANGED <<cm, lastHandled, ContextOthers>>

\* context.add_command(command, result) and
\* context.add_command(command, result, context)
AddCommand ==
    /\ Len(cm.command_history) < MaxAdds
    /\ \E context \in {None, "notepad"} :
          cm' = add_command(cm, "type hello", "typed", context, now)
    /\ UNCHANGED <<now, lastHandled, ContextOthers>>

\* process_command of a YouTube search that finds videos: automate_youtube
\* sets the YouTube context and adds the command
YoutubeSearch ==
    /\ Len(cm.command_history) < MaxAdds
    /\ cm' = add_command(set_context(cm, "youtube", Keywords.youtube),
                         "browse cats youtube", "YouTube search completed", "youtube", now)
    /\ lastHandled' = now
    /\ UNCHANGED <<now, ContextOthers>>

\* the next / skip rule of the YouTube follow-ups
next_video(c) ==
    IF c.youtube_current_index < Len(c.youtube_videos) - 1
    THEN [c EXCEPT !.youtube_current_index = @ + 1]
    ELSE c

\* process_command of a follow-up text: instant_execute handles it in its
\* YouTube block when the context is active and fresh; otherwise the block
\* is skipped and the command is no follow-up
FollowUp ==
    /\ \E text \in FollowUps :
          IF cm.youtube_active /\ is_context_fresh(cm, DEFAULT_MAX_AGE, now)
          THEN /\ cm' = IF text = "next video" THEN next_video(cm) ELSE cm
               /\ lastHandled' = now
          ELSE /\ cm' = cm
               /\ lastHandled' = lastHandled
    /\ UNCHANGED <<now, ContextOthers>>

FreshNext == Tick \/ AddCommand \/ YoutubeSearch \/ FollowUp

SpecFresh == FreshInit /\ [][FreshNext]_vars

\* add_command has been called, as the command history tells
command_added == cm.command_history # <<>>

\* seconds since the last add_command, by the timestamp of its entry
since_last_add == now - cm.command_history[Len(cm.command_history)].timestamp

MaxAges == {0, 100, DEFAULT_MAX_AGE, DEFAULT_MAX_AGE + 1}

\* C19: is_context_fresh(max_age) is true exactly when add_command has been
\* called and less than max_age seconds have passed since its last call.
C19_FreshIffRecentAdd ==
    \A max_age \in MaxAges :
        is_context_fresh(cm, max_age, now) <=>
            (command_added /\ since_last_add < max_age)

\* exactly 300 s after the second add_command the context is not fresh
\* under the default window
C19_Witness ==
    /\ Len(cm.command_history) = 2
    /\ since_last_add = DEFAULT_MAX_AGE
    /\ ~is_context_fresh(cm, DEFAULT_MAX_AGE, now)

\* C20 as stated, for the YouTube surface: for 300 s after the last command
\* process_command handled, follow-ups included, the context is fresh.
C20_FreshSinceLastCommand ==
    cm.youtube_active /\ lastHandled > 0 /\ now - lastHandled < DEFAULT_MAX_AGE
        => is_context_fresh(cm, DEFAULT_MAX_AGE, now)

-----------------------------------------------------------------------------
(* The command history of the ContextManager as commands are added           *)
(* (specification SpecRing)                                                  *)

MaxRingAdds == 12

RingCommands == {"play cats", "pause"}

RingInit ==
    /\ cwd = "C:\\work" /\ userProfile = "C:\\Users\\me"
    /\ GuardIdle /\ WorldIdle /\ FileIdle /\ PlanIdle /\ MatchIdle /\ RouteIdle
    /\ LlmIdle /\ HandleIdle
    /\ MemoryIdle /\ WorkersIdle /\ SessionIdle /\ InstantIdle
    /\ cm = NewContext
    /\ now = 1 /\ lastHandled = 0
    /\ added = <<>>

RingOthers ==
    <<envVars, guardVars, world, fileVars, planVars, matchVars, routeVars, llmVars,
      handleVars, memVars, wk, sessionVars, instantVars>>

\* context.add_command(command, result); a second has passed since the
\* call before
RingAdd ==
    /\ Len(added) < MaxRingAdds
    /\ \E command \in RingCommands :
          /\ cm' = add_command(cm, command, "done", None, now)
          /\ added' = Append(added, [command |-> command, t |-> now])
    /\ now' = now + 1
    /\ UNCHANGED <<lastHandled, RingOthers>>

RingNext == RingAdd

SpecRing == RingInit /\ [][RingNext]_vars

\* C21: command_history holds at most max_history entries, they are the
\* latest add_command calls in the order they were made, and last_command
\* and last_command_time are those of the latest call.
C21_HistoryIsLatestCalls ==
    LET h == cm.command_history
        n == Len(added)
        k == Min(n, max_history)
    IN  /\ Len(h) <= max_history
        /\ Len(h) = k
        /\ \A i \in 1..k : /\ h[i].command = added[n - k + i].command
                           /\ h[i].timestamp = added[n - k + i].t
        /\ n > 0 => /\ cm.last_command = added[n].command
                    /\ cm.last_command_time = added[n].t

\* twelve calls were made and the two oldest are gone
C21_Witness ==
    /\ Len(added) = 12
    /\ Len(cm.command_history) = max_history
    /\ cm.command_history[1].timestamp = added[3].t

-----------------------------------------------------------------------------
(* The AgentMemory object and its memory file (specification SpecMemory)     *)

MaxMemoryCalls == 3

\* the remember_command calls of process_command: a pattern match, a
\* command not understood, an executed plan
RememberCalls ==
    { [command |-> "Open Chrome", success |-> TRUE, result |-> "Pattern match",
       actions |-> Absent],
      [command |-> "what is love", success |-> FALSE, result |-> "Not understood",
       actions |-> Absent],
      [command |-> "type hi in notepad", success |-> TRUE, result |-> "LLM: 1 actions",
       actions |-> given(<<[action |-> "type_text", params |-> [text |-> "hi"]]>>)] }

\* the object after n calls remember_command('open chrome', True, 0,
\* 'Pattern match') made at time 0
session(n) ==
    LET entry == [command |-> "open chrome", success |-> TRUE, timestamp |-> 0,
                  execution_time |-> 0, result |-> "Pattern match", actions |-> <<>>]
        worked == [time |-> 0, execution_time |-> 0, actions |-> Absent]
    IN  [command_history |-> [k \in 1..n |-> entry],
         success_patterns |-> ("open chrome" :> [k \in 1..n |-> worked]),
         failure_patterns |-> EmptyDict,
         user_preferences |-> EmptyDict,
         app_usage |-> ("chrome" :> n)]

\* the memory file found at start-up: none, files with keys missing, and
\* files that earlier sessions of 1, 99 and 100 commands saved
MemoryFiles ==
    { None, "{}", "{\"app_usage\": {\"chrome\": 2}, \"user_preferences\": {}}" }
    \cup {json_dumps(document(session(n), 0)) : n \in {1, 99, 100}}

MemoryInit ==
    /\ cwd = "C:\\work" /\ userProfile = "C:\\Users\\me"
    /\ GuardIdle /\ WorldIdle /\ FileIdle /\ PlanIdle /\ MatchIdle /\ RouteIdle
    /\ LlmIdle /\ HandleIdle
    /\ RingIdle /\ WorkersIdle /\ SessionIdle /\ InstantIdle
    /\ cm = NewContext /\ lastHandled = 0
    /\ now = 1
    /\ disk \in MemoryFiles
    /\ mem = load_memory(NewMemory, disk)
    /\ calls = <<>>

MemoryOthers ==
    <<envVars, guardVars, world, fileVars, planVars, matchVars, routeVars, llmVars,
      handleVars, cm, lastHandled, ringVars, wk, sessionVars, instantVars>>

\* memory.remember_command(...), a second after the call before; the file
\* is opened, and the open can fail, only when an auto-save is due
RememberCommand ==
    /\ Len(calls) < MaxMemoryCalls
    /\ \E c \in RememberCalls,
          oserr \in IF (Len(mem.command_history) + 1) % 10 = 0 THEN BOOLEAN ELSE {FALSE} :
          \E r \in {remember_command(mem, disk, c.command, c.success, 0, c.result,
                                     c.actions, now, oserr)} :
              /\ mem' = r.mem
              /\ disk' = r.disk
              /\ calls' = Append(calls, [op |-> "remember_command", command |-> c.command])
    /\ now' = now + 1
    /\ UNCHANGED MemoryOthers

\* memory.learn_preference(category, value)
LearnPreference ==
    /\ Len(calls) < MaxMemoryCalls
    /\ \E value \in {"dark"}, oserr \in BOOLEAN :
          \E r \in {learn_preference(mem, disk, "theme", value, now, oserr)} :
              /\ mem' = r.mem
              /\ disk' = r.disk
              /\ calls' = Append(calls, [op |-> "learn_preference"])
    /\ UNCHANGED <<now, MemoryOthers>>

\* memory.save_memory(); the object as it is saved is kept beside the call
SaveMemory ==
    /\ Len(calls) < MaxMemoryCalls
    /\ \E oserr \in BOOLEAN :
          /\ disk' = save_memory(mem, disk, now, oserr)
          /\ calls' = Append(calls, [op |-> "save_memory", saved |-> ~oserr, mem |-> mem])
    /\ UNCHANGED <<mem, now, MemoryOthers>>

\* the program starts again: AgentMemory() and its load_memory()
LoadMemory ==
    /\ Len(calls) < MaxMemoryCalls
    /\ mem' = load_memory(NewMemory, disk)
    /\ calls' = Append(calls, [op |-> "load_memory"])
    /\ UNCHANGED <<disk, now, MemoryOthers>>

MemoryNext == RememberCommand \/ LearnPreference \/ SaveMemory \/ LoadMemory

SpecMemory == MemoryInit /\ [][MemoryNext]_vars

-----------------------------------------------------------------------------
(* remember_command called by command workers (specification SpecWorkers).  *)
(* send_text_command starts a thread per command; the threads share the     *)
(* AgentMemory object and take no lock.  A thread switch can fall between    *)
(* any two operations on the shared object: list.append is one operation,    *)
(* self.app_usage[word] += 1 is a read followed by a write.                  *)

MaxWorkers == 2

WorkerCommands == {"open chrome", "chrome and notepad", "what is love"}

\* the counted words of a command, in order
RECURSIVE mentions(_)
mentions(ws) ==
    IF ws = <<>> THEN <<>>
    ELSE IF Head(ws) \in CountedApps THEN <<Head(ws)>> \o mentions(Tail(ws))
    ELSE mentions(Tail(ws))

WorkersInit ==
    /\ cwd = "C:\\work" /\ userProfile = "C:\\Users\\me"
    /\ GuardIdle /\ WorldIdle /\ FileIdle /\ PlanIdle /\ MatchIdle /\ RouteIdle
    /\ LlmIdle /\ HandleIdle /\ ContextIdle
    /\ RingIdle /\ SessionIdle /\ InstantIdle
    /\ mem = NewMemory /\ disk = None /\ calls = <<>>
    /\ wk = <<>>

WorkersOthers ==
    <<envVars, guardVars, world, fileVars, planVars, matchVars, routeVars, llmVars,
      handleVars, cmVars, ringVars, sessionVars, instantVars>>

\* send_text_command: a thread is started for the command
StartWorker ==
    /\ Len(wk) < MaxWorkers
    /\ \E command \in WorkerCommands :
          /\ wk' = Append(wk, [pc |-> "record", command |-> command,
                               words |-> mentions(split_blanks(lower(command))), read |-> 0])
          /\ calls' = Append(calls, [op |-> "remember_command", command |-> command])
    /\ UNCHANGED <<mem, disk, WorkersOthers>>

\* the worker appends the entry and the success or failure item
RecordEntry(i) ==
    /\ wk[i].pc = "record"
    /\ mem' = appended(mem, wk[i].command, wk[i].command # "what is love", 0,
                       "Pattern match", Absent, 0)
    /\ wk' = [wk EXCEPT ![i].pc = "count"]
    /\ UNCHANGED <<disk, calls, WorkersOthers>>

\* self.app_usage[word] += 1, the read: Counter.__getitem__
ReadUsage(i) ==
    /\ wk[i].pc = "count" /\ wk[i].words # <<>>
    /\ wk' = [wk EXCEPT ![i].pc = "store",
                        ![i].read = get(mem.app_usage, Head(wk[i].words), 0)]
    /\ UNCHANGED <<mem, disk, calls, WorkersOthers>>

\* self.app_usage[word] += 1, the write: Counter.__setitem__
WriteUsage(i) ==
    /\ wk[i].pc = "store"
    /\ mem' = [mem EXCEPT !.app_usage = with_item(@, Head(wk[i].words), wk[i].read + 1)]
    /\ wk' = [wk EXCEPT ![i].pc = "count", ![i].words = Tail(@)]
    /\ UNCHANGED <<disk, calls, WorkersOthers>>

\* the auto-save every tenth command, and the return
ReturnWorker(i) ==
    /\ wk[i].pc = "count" /\ wk[i].words = <<>>
    /\ disk' = IF Len(mem.command_history) % 10 = 0
               THEN save_memory(mem, disk, 0, FALSE) ELSE disk
    /\ wk' = [wk EXCEPT ![i].pc = "done"]
    /\ UNCHANGED <<mem, calls, WorkersOthers>>

WorkersNext ==
    \/ StartWorker
    \/ \E i \in 1..Len(wk) :
          RecordEntry(i) \/ ReadUsage(i) \/ WriteUsage(i) \/ ReturnWorker(i)

SpecWorkers == WorkersInit /\ [][WorkersNext]_vars

\* the number of times app is mentioned in the recorded commands
RECURSIVE mentioned(_, _)
mentioned(app, entries) ==
    IF entries = <<>> THEN 0
    ELSE mentioned(app, Tail(entries))
         + Cardinality({k \in DOMAIN mentions(split_blanks(lower(Head(entries).command))) :
                           mentions(split_blanks(lower(Head(entries).command)))[k] = app})

\* C25: when every started remember_command has returned, the history has
\* one entry per call and each usage counter equals the number of mentions
\* of its application in the recorded commands.
C25_NoLostUpdate ==
    (wk # <<>> /\ \A i \in 1..Len(wk) : wk[i].pc = "done") =>
        /\ Len(mem.command_history) = Len(calls)
        /\ \A app \in CountedApps :
              get(mem.app_usage, app, 0) = mentioned(app, mem.command_history)

\* C22: after any sequence of remember_command calls the command history the
\* object holds has at most 100 entries.
C22_HistoryBounded == Len(mem.command_history) <= Kept

\* the object was just built by load_memory: at start-up or by a restart
just_loaded == calls = <<>> \/ calls[Len(calls)].op = "load_memory"

\* save_memory wrote the file and load_memory read it next
saved_then_loaded ==
    /\ Len(calls) >= 2
    /\ calls[Len(calls)].op = "load_memory"
    /\ calls[Len(calls) - 1].op = "save_memory"
    /\ calls[Len(calls) - 1].saved

\* the fields load_memory finds no key for in a memory file that decodes to
\* a dict
missing_keys ==
    LET r == json_loads(disk)
    IN  IF disk = None \/ r.raised \/ r.v.t # "dict" THEN {}
        ELSE DOMAIN NewMemory \ {r.v.keys[k] : k \in 1..Len(r.v.keys)}

\* C23: after save_memory wrote the file and load_memory read it, the object
\* holds the last 100 history entries it held before the save, in the same
\* order, and the same success and failure lists, usage counts and
\* preferences; a file that decodes to a dict without a key loads with that
\* field empty.
C23_SaveLoadRoundTrip ==
    /\ saved_then_loaded =>
            mem = [calls[Len(calls) - 1].mem EXCEPT
                      !.command_history = last_items(@, Kept)]
    /\ just_loaded => \A field \in missing_keys : mem[field] = NewMemory[field]

C23_Witness ==
    /\ saved_then_loaded
    /\ Len(calls[Len(calls) - 1].mem.command_history) = Kept + 1
    /\ Len(mem.command_history) = Kept
    /\ mem.command_history[Kept].command = "type hi in notepad"
    /\ mem.app_usage = [chrome |-> 100, notepad |-> 1]

-----------------------------------------------------------------------------
(* 'next video' and 'previous video' handled by command workers             *)
(* (specification SpecVideos).  The workers share the ContextManager and    *)
(* take no lock: the comparison of youtube_current_index, the read and the   *)
(* write of += 1 or -= 1, and the read that indexes youtube_videos are       *)
(* separate operations on the shared object.                                 *)

MaxFollowers == 2

Videos == <<"video 1", "video 2", "video 3">>

VideoCommands == {"next video", "previous video"}

\* a YouTube search found the videos and one of them was played
VideosInit ==
    /\ cwd = "C:\\work" /\ userProfile = "C:\\Users\\me"
    /\ GuardIdle /\ WorldIdle /\ FileIdle /\ PlanIdle /\ MatchIdle /\ RouteIdle
    /\ LlmIdle /\ HandleIdle
    /\ RingIdle /\ MemoryIdle /\ SessionIdle /\ InstantIdle
    /\ now = 1 /\ lastHandled = 1
    /\ \E index \in 0..(Len(Videos) - 1) :
          cm = [add_command(set_context(NewContext, "youtube", [videos |-> Videos]),
                            "play cats youtube", "YouTube search completed", "youtube", now)
                  EXCEPT !.youtube_current_index = index]
    /\ wk = <<>>

VideosOthers ==
    <<envVars, guardVars, world, fileVars, planVars, matchVars, routeVars, llmVars,
      handleVars, now, lastHandled, ringVars, memVars, sessionVars, instantVars>>

\* send_text_command: a thread is started for the follow-up
StartFollower ==
    /\ Len(wk) < MaxFollowers
    /\ \E command \in VideoCommands :
          wk' = Append(wk, [pc |-> "enter", command |-> command, read |-> 0])
    /\ UNCHANGED <<cm, VideosOthers>>

\* instant_execute: the follow-up block is entered when the context is
\* active and fresh
EnterFollowUps(i) ==
    /\ wk[i].pc = "enter"
    /\ wk' = [wk EXCEPT ![i].pc =
                 IF cm.youtube_active /\ is_context_fresh(cm, DEFAULT_MAX_AGE, now)
                 THEN "compare" ELSE "done"]
    /\ UNCHANGED <<cm, VideosOthers>>

\* if youtube_current_index < len(youtube_videos) - 1: / if ... > 0:
CompareIndex(i) ==
    /\ wk[i].pc = "compare"
    /\ wk' = [wk EXCEPT ![i].pc =
                 IF wk[i].command = "next video"
                 THEN (IF cm.youtube_current_index < Len(cm.youtube_videos) - 1
                       THEN "read" ELSE "done")
                 ELSE (IF cm.youtube_current_index > 0 THEN "read" ELSE "done")]
    /\ UNCHANGED <<cm, VideosOthers>>

\* youtube_current_index += 1 / -= 1, the read
ReadIndex(i) ==
    /\ wk[i].pc = "read"
    /\ wk' = [wk EXCEPT ![i].pc = "write", ![i].read = cm.youtube_current_index]
    /\ UNCHANGED <<cm, VideosOthers>>

\* youtube_current_index += 1 / -= 1, the write
WriteIndex(i) ==
    /\ wk[i].pc = "write"
    /\ cm' = [cm EXCEPT !.youtube_current_index =
                 IF wk[i].command = "next video" THEN wk[i].read + 1 ELSE wk[i].read - 1]
    /\ wk' = [wk EXCEPT ![i].pc = "click"]
    /\ UNCHANGED VideosOthers

\* youtube_videos[youtube_current_index] is clicked; an index past the end
\* raises IndexError, which the except reports; True is returned either way
ClickVideo(i) ==
    /\ wk[i].pc = "click"
    /\ wk' = [wk EXCEPT ![i].pc = "done"]
    /\ UNCHANGED <<cm, VideosOthers>>

VideosNext ==
    \/ StartFollower
    \/ \E i \in 1..Len(wk) :
          \/ EnterFollowUps(i)
          \/ CompareIndex(i)
          \/ ReadIndex(i)
          \/ WriteIndex(i)
          \/ ClickVideo(i)

SpecVideos == VideosInit /\ [][VideosNext]_vars

\* C26: while workers handle 'next video' and 'previous video' concurrently,
\* youtube_current_index stays within 0 .. len(youtube_videos) - 1.
C26_IndexInRange ==
    cm.youtube_current_index \in 0..(Len(cm.youtube_videos) - 1)

-----------------------------------------------------------------------------
(* automate_youtube and the browser session (specification SpecSessions).   *)
(* sessions[n] tells whether the n-th webdriver session created is alive;   *)
(* browser is the number of the session self.browser holds, 0 for None.     *)
(* Each command runs in its own thread, and each statement of               *)
(* automate_youtube that touches self.browser is a step of its own.          *)

MaxSessions == 3

SessionsInit ==
    /\ cwd = "C:\\work" /\ userProfile = "C:\\Users\\me"
    /\ GuardIdle /\ WorldIdle /\ FileIdle /\ PlanIdle /\ MatchIdle /\ RouteIdle
    /\ LlmIdle /\ HandleIdle /\ ContextIdle
    /\ RingIdle /\ MemoryIdle /\ InstantIdle
    /\ browser = 0 /\ sessions = <<>>
    /\ wk = <<>>

SessionsOthers ==
    <<envVars, guardVars, world, fileVars, planVars, matchVars, routeVars, llmVars,
      handleVars, cmVars, ringVars, memVars, instantVars>>

\* a command that searches YouTube is sent: its thread reaches
\* automate_youtube
StartSearch ==
    /\ Len(wk) < MaxSessions
    /\ wk' = Append(wk, [pc |-> "if"])
    /\ UNCHANGED <<browser, sessions, SessionsOthers>>

\* if self.browser:
IfBrowser(i) ==
    /\ wk[i].pc = "if"
    /\ wk' = [wk EXCEPT ![i].pc = IF browser # 0 THEN "quit" ELSE "create"]
    /\ UNCHANGED <<browser, sessions, SessionsOthers>>

\* self.browser.quit(): the session ends, or the call raises (the session
\* does not answer, or self.browser has become None) and the except passes
QuitBrowser(i) ==
    /\ wk[i].pc = "quit"
    /\ \E raises \in BOOLEAN :
          sessions' = IF browser = 0 \/ raises THEN sessions
                      ELSE [sessions EXCEPT ![browser].alive = FALSE]
    /\ wk' = [wk EXCEPT ![i].pc = "finally"]
    /\ UNCHANGED <<browser, SessionsOthers>>

\* finally: self.browser = None
ResetBrowser(i) ==
    /\ wk[i].pc = "finally"
    /\ browser' = 0
    /\ wk' = [wk EXCEPT ![i].pc = "create"]
    /\ UNCHANGED <<sessions, SessionsOthers>>

\* self.browser = webdriver.Chrome(...); when it raises, the outer except
\* sets self.browser = None
CreateBrowser(i) ==
    /\ wk[i].pc = "create"
    /\ \E raises \in BOOLEAN :
          IF raises
          THEN /\ browser' = 0
               /\ sessions' = sessions
               /\ wk' = [wk EXCEPT ![i].pc = "done"]
          ELSE /\ sessions' = Append(sessions, [alive |-> TRUE])
               /\ browser' = Len(sessions) + 1
               /\ wk' = [wk EXCEPT ![i].pc = "search"]
    /\ UNCHANGED SessionsOthers

\* self.browser.get(...) and the search: when one of them raises, the outer
\* except sets self.browser = None
SearchYoutube(i) ==
    /\ wk[i].pc = "search"
    /\ \E raises \in BOOLEAN : browser' = IF raises THEN 0 ELSE browser
    /\ wk' = [wk EXCEPT ![i].pc = "done"]
    /\ UNCHANGED <<sessions, SessionsOthers>>

SessionsNext ==
    \/ StartSearch
    \/ \E i \in 1..Len(wk) :
          \/ IfBrowser(i)
          \/ QuitBrowser(i)
          \/ ResetBrowser(i)
          \/ CreateBrowser(i)
          \/ SearchYoutube(i)

SpecSessions == SessionsInit /\ [][SessionsNext]_vars

\* C27: every session created is the one self.browser holds or has been
\* quit, so at most one session is alive.
C27_OneSessionAlive ==
    /\ \A n \in 1..Len(sessions) : sessions[n].alive => browser = n
    /\ Cardinality({n \in 1..Len(sessions) : sessions[n].alive}) <= 1

-----------------------------------------------------------------------------
(* instant_execute called with one command after another (specification    *)
(* SpecInstant).  The texts are lower case and stripped, as process_command  *)
(* passes them.                                                              *)

MaxInstantCalls == 2

InstantTexts ==
    { "play cats youtube", "next video", "play second video", "pause",
      "what time is it", "search for copy shops", "search cpu usage",
      "open clearance.txt", "play ramones youtube", "open a.txt", "open ~",
      "open notepad", "open chrome cats", "open example.com", "open whatsapp",
      "open foo", "launch windows settings" }

FollowUpRules ==
    {"yt_select", "yt_next", "yt_previous", "yt_pause", "yt_play", "yt_fullscreen",
     "yt_forward", "yt_backward", "yt_faster", "yt_slower"}

OpenRules ==
    {"open_path", "open_expanded_path", "open_windows_settings", "open_app", "open_url",
     "open_shortcut", "open_not_found"}

InstantInit ==
    /\ cwd = "C:\\work" /\ userProfile = "C:\\Users\\me"
    /\ GuardIdle /\ FileIdle /\ PlanIdle /\ MatchIdle
    /\ LlmIdle /\ ContextIdle /\ HandleIdle
    /\ RingIdle /\ MemoryIdle /\ WorkersIdle /\ SessionIdle
    /\ world = InitialWorld
    /\ stack = <<>> /\ log = <<>> /\ history = <<>> /\ nextId = 0 /\ crashed = FALSE
    /\ ctx = InitialContext
    /\ iText = "" /\ iEnv = None /\ iResult = None /\ iBefore = None /\ iPc = "idle"
    /\ iN = 0

InstantOthers ==
    <<envVars, guardVars, fileVars, planVars, matchVars, stack, log, history, nextId,
      crashed, llmVars, cmVars, handleVars, ringVars, memVars, wk, sessionVars>>

\* instant_execute(text); for a text the open rule claims, the steps the
\* rule took are kept with the result
InstantExecute ==
    /\ iN < MaxInstantCalls
    /\ iN' = iN + 1
    /\ \E text \in InstantTexts, env \in Envs :
          \E r \in {instant_execute(world, ctx, text, env)} :
              /\ iText' = text
              /\ iEnv' = env
              /\ iBefore' = ctx
              /\ iResult' =
                    [ret |-> r.ret, raised |-> r.raised, rule |-> r.rule,
                     steps |-> IF r.rule \in OpenRules
                               THEN open_steps(world,
                                               strip(re_search(open_pattern, 1, text).caps[1]),
                                               env)
                               ELSE <<>>]
              /\ world' = r.w
              /\ ctx' = r.c
    /\ iPc' = "done"
    /\ UNCHANGED InstantOthers

\* five minutes pass without a YouTube search: is_context_fresh() turns
\* false
ContextGoesStale ==
    /\ ctx.fresh
    /\ ctx' = [ctx EXCEPT !.fresh = FALSE]
    /\ UNCHANGED <<world, instantVars, InstantOthers>>

InstantNext == InstantExecute \/ ContextGoesStale

SpecInstant == InstantInit /\ [][InstantNext]_vars

\* C28: a call made while the YouTube context is inactive or stale fires no
\* follow-up rule and leaves youtube_current_index as it was; the rule that
\* handles the command is the one the other rules give.
C28_FollowUpsNeedFreshContext ==
    (iPc = "done" /\ ~(iBefore.youtube_active /\ iBefore.fresh)) =>
        /\ iResult.rule \notin FollowUpRules
        /\ ctx.youtube_current_index = iBefore.youtube_current_index

\* 'next video' after the context went stale: no rule handled it
C28_Witness ==
    /\ iPc = "done"
    /\ iBefore.youtube_active /\ ~iBefore.fresh
    /\ iText = "next video"
    /\ iResult.rule = "none" /\ iResult.ret = FALSE
    /\ ctx.youtube_current_index = iBefore.youtube_current_index

\* the text matches the YouTube, web-search or open rule
matches_specific_rule(text) ==
    \/ re_search(<<YoutubeVerbs, Ws, Lazy(1)>> \o youtube_suffix, 1, text).ok
    \/ /\ contains(text, "youtube") \/ contains(text, " yt")
       /\ re_search(youtube_suffix, 0, text).ok
       /\ youtube_query(text) # ""
    \/ re_search(web_search_pattern, 1, text).ok
    \/ re_search(open_pattern, 1, text).ok

\* C29: a command that matches the YouTube, web-search or open rule is not
\* handled by a keyword rule (clear, copy, config, cpu, ram, time, date).
C29_SpecificRuleBeforeKeyword ==
    (iPc = "done" /\ matches_specific_rule(iText)) => iResult.rule \notin KeywordRules

\* the place of a step in the order of the open rule
step_rank(step) ==
    CASE step = "path" -> 1
      [] step = "expanded path" -> 2
      [] step = "windows settings" -> 3
      [] step = "launch alias" -> 4
      [] step = "launch zoom" -> 5
      [] step = "launch exe" -> 6
      [] step = "launch store" -> 7
      [] step = "url" -> 8
      [] step = "url shortcut" -> 9
      [] step = "not found" -> 10

\* the rule that reports the last step taken
rule_of(last) ==
    CASE last.step = "path" -> "open_path"
      [] last.step = "expanded path" -> "open_expanded_path"
      [] last.step = "windows settings" -> "open_windows_settings"
      [] last.step = "url" -> "open_url"
      [] last.step = "url shortcut" -> "open_shortcut"
      [] last.step = "not found" -> "open_not_found"
      [] OTHER -> "open_app"

\* the steps are taken in the order of the rule, each after all earlier
\* ones failed, and at most one of them opened or started something
one_action_in_order(steps) ==
    /\ steps # <<>>
    /\ \A k \in 1..(Len(steps) - 1) :
          /\ step_rank(steps[k].step) < step_rank(steps[k + 1].step)
          /\ ~steps[k].started
    /\ Cardinality({k \in 1..Len(steps) : steps[k].started}) <= 1

\* the steps the claim lists
ListedSteps ==
    {"path", "expanded path", "launch alias", "launch exe", "launch store", "url",
     "url shortcut", "not found"}

\* C30 as stated: the steps of an 'open X' command are taken from existing
\* path, expanded path, application launch (alias table, literal
\* executable, store-app lookup), URL, URL-shortcut table and not-found
\* report, in this order, each only after all earlier ones failed; at most
\* one opens or starts something.
C30_OpenStepsAsListed ==
    (iPc = "done" /\ iResult.rule \in OpenRules) =>
        /\ one_action_in_order(iResult.steps)
        /\ \A k \in 1..Len(iResult.steps) : iResult.steps[k].step \in ListedSteps

\* C30 amended: the steps are existing path, expanded path, the Windows
\* settings page when X is 'windows settings...', application launch (alias
\* table, Zoom path, literal executable, store-app lookup), URL when X
\* contains a dot, URL-shortcut table and not-found report; they are taken in
\* this order, each only after all earlier ones failed, at most one opens or
\* starts something, the rule reports the last step taken, and after a
\* launch that started the application no further step is taken.
C30_OneOpenAction ==
    (iPc = "done" /\ iResult.rule \in OpenRules) =>
        /\ one_action_in_order(iResult.steps)
        /\ iResult.rule = rule_of(iResult.steps[Len(iResult.steps)])
        /\ iResult.rule = "open_app" => iResult.steps[Len(iResult.steps)].started

\* 'open chrome cats': the shortcut raised, the executable started chrome,
\* and nothing was done with 'cats'
C30_Witness ==
    /\ iPc = "done"
    /\ iText = "open chrome cats"
    /\ iResult.rule = "open_app"
    /\ iResult.steps = <<[step |-> "launch alias", started |-> FALSE],
                         [step |-> "launch exe", started |-> TRUE]>>

-----------------------------------------------------------------------------
(* 'find X and move to Y' on a crowded folder (specification SpecFind)       *)

\* the most files the search can come back with
MaxFound == 12

Reports ==
    <<"r01.log", "r02.log", "r03.log", "r04.log", "r05.log", "r06.log", "r07.log",
      "r08.log", "r09.log", "r10.log", "r11.log", "r12.log", "r13.log">>

\* the filesystem with n more files in the user's folder, where the search
\* starts (current_directory)
CrowdedWorld(n) ==
    [InitialWorld EXCEPT
        !.files = @ \cup {"C:\\Users\\me\\" \o Reports[k] : k \in 1..n},
        !.dirs = @ \cup {"C:\\Users\\me\\Desktop"}]

CrowdCommands ==
    {"find log and move to desktop", "Find all log move to old",
     "find r0 and move them into documents"}

FindInit ==
    /\ cwd = "C:\\work" /\ userProfile = "C:\\Users\\me"
    /\ GuardIdle /\ FileIdle /\ PlanIdle /\ MatchIdle /\ RouteIdle
    /\ LlmIdle /\ ContextIdle /\ MoreIdle
    /\ world \in {CrowdedWorld(n) : n \in 0..MaxFound}
    /\ hBefore = world
    /\ hText \in CrowdCommands
    /\ hEnv \in Envs
    /\ hResult = None /\ hReported = -1
    /\ hPc = "call"

SpecFind == FindInit /\ [][HandleNext]_vars

\* the validations of the move_file calls made since the call started: each
\* call validates its source, then its destination
move_validations ==
    SelectSeq(SubSeq(world.validations, Len(hBefore.validations) + 1,
                     Len(world.validations)),
              LAMBDA v : v[1] = "move")

\* the sources of the move_file calls, in order
move_file_calls ==
    [k \in 1..(Len(move_validations) \div 2) |-> move_validations[2 * k - 1][2]]

\* the shutil.move calls made since the call started
shutil_moves ==
    {k \in (Len(hBefore.fsCalls) + 1)..Len(world.fsCalls) :
        world.fsCalls[k][1] = "shutil.move"}

\* what the search of the call came back with
search_results == search_files(hBefore, find_groups[1], None).ret

\* C31: one 'find X and move to Y' call issues at most 10 move operations
\* (move_file calls, and so shutil.move calls), however many files the
\* search returns, and they are for the first ten results.
C31_AtMostTenMoves ==
    (hPc = "done" /\ matched_pattern = "find_and_move") =>
        /\ Len(move_file_calls) <= 10
        /\ Cardinality(shutil_moves) <= 10
        /\ Len(move_file_calls) = Min(10, Len(search_results))
        /\ \A k \in 1..Len(move_file_calls) : move_file_calls[k] = search_results[k].path

\* the search found twelve files, ten were moved and two are where they were
C31_Witness ==
    /\ hPc = "done" /\ matched_pattern = "find_and_move"
    /\ Len(search_results) = 12
    /\ Len(move_file_calls) = 10
    /\ Cardinality(shutil_moves) = 10
    /\ Cardinality({k \in 1..Len(search_results) :
                        exists(world, search_results[k].path)}) = 2

-----------------------------------------------------------------------------
(* Organize-downloads on the Downloads folder (specification SpecOrganize)   *)

Downloads == "C:\\Users\\me\\Downloads"

\* regular files the Downloads folder may hold: one per category in the
\* spellings met, one of no category, a dot file, a file named as a category
DownloadFiles == {"a.pdf", "b.jpg", "c.txt", "d.xyz", "e.PNG", ".zip", "Videos"}

\* sub-folders it may hold
DownloadFolders == {"pics.png", "PDFs"}

\* the filesystem with these files and folders in the Downloads folder
DownloadsWorld(fs, ds) ==
    [InitialWorld EXCEPT
        !.files = {f \in @ : ~startswith(f, Downloads \o BS)}
                      \cup {Downloads \o BS \o f : f \in fs},
        !.dirs = {d \in @ : ~startswith(d, Downloads \o BS)}
                      \cup {Downloads \o BS \o d : d \in ds}]

OrganizeCommands == {"organize downloads", " Organize my Downloads"}

\* what the operating system does: it refuses to make a folder (oserr), or
\* keeps some of the files locked
OrganizeEnvs ==
    {[oserr |-> o, ok |-> TRUE, locked |-> {Downloads \o BS \o f : f \in l}] :
        o \in BOOLEAN, l \in SUBSET {"a.pdf", "c.txt"}}

OrganizeInit ==
    /\ cwd = "C:\\work" /\ userProfile = "C:\\Users\\me"
    /\ GuardIdle /\ FileIdle /\ PlanIdle /\ MatchIdle /\ RouteIdle
    /\ LlmIdle /\ ContextIdle /\ MoreIdle
    /\ world \in {DownloadsWorld(fs, ds) :
                     fs \in SUBSET DownloadFiles, ds \in SUBSET DownloadFolders}
                \cup {BareWorld}
    /\ hBefore = world
    /\ hText \in OrganizeCommands
    /\ hEnv \in OrganizeEnvs
    /\ hResult = None /\ hReported = -1
    /\ hPc = "call"

SpecOrganize == OrganizeInit /\ [][HandleNext]_vars

\* the regular files of the Downloads folder when the call started
downloaded == {f \in hBefore.files : dirname(f) = Downloads}

\* the category folders whose list has the lower-cased extension of the file
categories(f) ==
    {folders[k][1] : k \in {j \in 1..Len(folders) :
                               lower(extension(basename(f))) \in folders[j][2]}}

\* the shutil.move calls of the call that have f as their source
moves_of(f) == {k \in shutil_moves : world.fsCalls[k][2][1] = f}

\* C32: organize-downloads moves each regular file of the Downloads folder
\* at most once, into the category folder whose extension list has the
\* file's lower-cased extension (every such file the system lets go of is
\* moved); files of any other extension and sub-folders stay where they are;
\* the reported count is the number of files actually moved.
C32_OrganizeByExtension ==
    (hPc = "done" /\ hResult = True) =>
        /\ \A k \in shutil_moves : world.fsCalls[k][2][1] \in downloaded
        /\ \A f \in downloaded :
              /\ Cardinality(moves_of(f)) <= 1
              /\ \A k \in moves_of(f) :
                    \E cat \in categories(f) :
                        abspath(world.fsCalls[k][2][2]) =
                            Downloads \o BS \o cat \o BS \o basename(f)
              /\ categories(f) = {} => (f \in world.files /\ moves_of(f) = {})
              /\ (categories(f) # {} /\ f \notin hEnv.locked) =>
                    /\ f \notin world.files
                    /\ \E cat \in categories(f) :
                          Downloads \o BS \o cat \o BS \o basename(f) \in world.files
        /\ hBefore.dirs \subseteq world.dirs
        /\ hReported = Cardinality({f \in downloaded : f \notin world.files})

\* a.pdf, b.jpg, c.txt and d.xyz: three moves reported, d.xyz where it was
C32_Witness ==
    /\ hPc = "done" /\ hResult = True
    /\ downloaded = {Downloads \o BS \o f : f \in {"a.pdf", "b.jpg", "c.txt", "d.xyz"}}
    /\ hReported = 3
    /\ Downloads \o BS \o "d.xyz" \in world.files
    /\ {Downloads \o BS \o "PDFs\\a.pdf", Downloads \o BS \o "Images\\b.jpg",
         Downloads \o BS \o "Documents\\c.txt"} \subseteq world.files

-----------------------------------------------------------------------------
(* YouTube searches and follow-ups, one after the other                      *)
(* (specification SpecPlaylist)                                              *)

\* the most videos a search finds
MaxResults == 3

Found == <<"video 1", "video 2", "video 3", "video 4">>

PlaylistInit ==
    /\ cwd = "C:\\work" /\ userProfile = "C:\\Users\\me"
    /\ GuardIdle /\ WorldIdle /\ FileIdle /\ PlanIdle /\ MatchIdle /\ RouteIdle
    /\ LlmIdle /\ HandleIdle /\ MoreIdle
    /\ cm = NewContext
    /\ now = 1 /\ lastHandled = 0

\* automate_youtube(query): with results the YouTube context is set to the
\* new list and the command is added; with none, or when the browser fails,
\* the context stays as it is
PlaylistSearch ==
    /\ \E n \in 0..MaxResults, raises \in BOOLEAN :
          cm' = IF raises \/ n = 0 THEN cm
                ELSE add_command(set_context(cm, "youtube",
                                             [browser |-> "driver",
                                              videos |-> SubSeq(Found, 1, n)]),
                                 "browse cats youtube", "YouTube search completed",
                                 "youtube", now)
    /\ UNCHANGED <<now, lastHandled, ContextOthers>>

\* the 'play the Nth video' rule: the index is set after the click
select_video(c, video_num, click_raises) ==
    IF 1 <= video_num /\ video_num <= Len(c.youtube_videos) /\ ~click_raises
    THEN [c EXCEPT !.youtube_current_index = video_num - 1]
    ELSE c

\* the previous / back rule
previous_video(c) ==
    IF c.youtube_current_index > 0
    THEN [c EXCEPT !.youtube_current_index = @ - 1]
    ELSE c

\* the follow-up rules are tried while the YouTube context is active and
\* fresh
follow_ups_open == cm.youtube_active /\ is_context_fresh(cm, DEFAULT_MAX_AGE, now)

SelectVideo ==
    /\ follow_ups_open
    /\ \E video_num \in 1..(MaxResults + 1), click_raises \in BOOLEAN :
          cm' = select_video(cm, video_num, click_raises)
    /\ UNCHANGED <<now, lastHandled, ContextOthers>>

NextVideo ==
    /\ follow_ups_open
    /\ cm' = next_video(cm)
    /\ UNCHANGED <<now, lastHandled, ContextOthers>>

PreviousVideo ==
    /\ follow_ups_open
    /\ cm' = previous_video(cm)
    /\ UNCHANGED <<now, lastHandled, ContextOthers>>

PlaylistNext == PlaylistSearch \/ SelectVideo \/ NextVideo \/ PreviousVideo

SpecPlaylist == PlaylistInit /\ [][PlaylistNext]_vars

\* C33 as stated: after any sequence of YouTube searches and follow-ups
\* (select by number, next, previous), youtube_current_index is -1 or a
\* position of the current result list, also after a new search put a
\* shorter list in its place.
C33_IndexWithinResults ==
    /\ -1 <= cm.youtube_current_index
    /\ cm.youtube_current_index < Len(cm.youtube_videos)

-----------------------------------------------------------------------------
(* Re-entries of process_command from the chain and open-and-do handlers     *)
(* (specification SpecRecursion)                                             *)

\* the most words of a command
MaxChainWords == 3

ChainVocabulary == {"open", "chrome", "and", "then", "pause"}

\* commands of up to MaxChainWords words, and longer ones that nest an
\* open-and-do inside a chain
RecursionCommands ==
    {sentence(ws) : ws \in UNION {[1..n -> ChainVocabulary] : n \in 1..MaxChainWords}}
    \cup { "open chrome and cats then get time",
           "open notepad then open chrome and cats",
           "open chrome and search gravity then open notepad and type hello",
           "Open Chrome  AND  then and open chrome" }

RecursionInit ==
    /\ cwd = "C:\\work" /\ userProfile = "C:\\Users\\me"
    /\ GuardIdle /\ FileIdle /\ PlanIdle /\ MatchIdle
    /\ LlmIdle /\ ContextIdle /\ HandleIdle /\ MoreIdle
    /\ world = InitialWorld
    /\ \E text \in RecursionCommands : stack = <<frame(1, text)>>
    /\ log = <<>> /\ history = <<>> /\ nextId = 1 /\ crashed = FALSE
    /\ ctx = InitialContext

\* a step of the worker is possible: some frame is on the stack, and the
\* frame on top is a handler's or a process_command at one of its tiers
worker_can_step ==
    /\ stack # <<>>
    /\ top.kind = "handler" \/ top.pc \in {"template", "fast", "instant", "llm"}

\* the worker thread runs process_command until it returns, a step that can
\* be taken is taken: WF_stack(RouteNext), with ENABLED <<RouteNext>>_stack
\* written as the guards of the five actions
WorkerRuns == []<>(~worker_can_step) \/ []<><<RouteNext>>_stack

SpecRecursion == RecursionInit /\ [][RouteNext]_vars /\ WorkerRuns

\* the _execute_chain frames of the stack
chain_frames ==
    {k \in 1..Len(stack) : stack[k].kind = "handler" /\ stack[k].action = "chain_execution"}

\* no sub-command of a chain being executed is detected as a chain
subcommands_not_chains ==
    \A k \in chain_frames :
        \A j \in 1..Len(stack[k].commands) :
            match(stack[k].commands[j]).action # "chain_execution"

\* each process_command called by a handler works on a command strictly
\* shorter than the one its caller works on
reentries_shorter ==
    \A k \in 2..Len(stack) :
        stack[k].kind = "process_command" => Len(stack[k].text) < Len(stack[k - 1].text)

\* C36: no sub-command produced by chain splitting is itself detected as a
\* chain, every re-entry of process_command from _execute_chain and
\* _open_and_do is on a strictly shorter command, chain execution is at most
\* one level deep, and the processing of the command comes to its end.
C36_ChainRecursionEnds ==
    /\ [](subcommands_not_chains /\ reentries_shorter /\ Cardinality(chain_frames) <= 1)
    /\ [](stack # <<>> => worker_can_step)
    /\ <>(stack = <<>>)

\* a sub-command of a chain has opened an application and its own action is
\* being processed: four frames, the command shorter at each re-entry
C36_Witness ==
    /\ Len(stack) = 5
    /\ stack[2].kind = "handler" /\ stack[2].action = "chain_execution"
    /\ stack[4].kind = "handler" /\ stack[4].action = "open_and_do"
    /\ stack[5].kind = "process_command" /\ stack[5].text = "cats"

=============================================================================
